---- MODULE Spec2Model ----
(***************************************************************************)
(* A model of the storage engine substrate: the extendible hash table that *)
(* serves as page table, the LRU-K replacer, the buffer pool manager       *)
(* instance, and the B+Tree index whose nodes live in buffer pool pages.   *)
(*                                                                         *)
(* C++ arrays, vectors and lists are sequences here; a C++ index i is the  *)
(* sequence index i + 1 (see At).  A Page* is the index of the frame in    *)
(* pages_, nullptr is the index -1.                                        *)
(***************************************************************************)
EXTENDS Integers, Sequences, FiniteSets, TLC

VARIABLES
    bpm,      \* the BufferPoolManagerInstance, with its page table, replacer and disk
    tree,     \* the BPlusTree object's own fields
    shadow,   \* history: what the callers have stored (key -> value, or page -> bytes)
    last,     \* history: the last call made and what it returned
    thr       \* the threads of the concurrent buffer pool: latch owner and positions

vars == <<bpm, tree, shadow, last, thr>>

-----------------------------------------------------------------------------
(* Bounds of the model.                                                    *)

\* keys offered to the B+Tree are 1..MaxKey
MaxKey == 4
\* values (record ids) offered to the B+Tree are 1..MaxVal
MaxVal == 2
\* record_access is offered to the replacer alone while its logical clock is
\* below MaxTime
MaxTime == 5
\* page ids offered to the buffer pool calls are 0..MaxPage
MaxPage == 1
\* calls are offered to the bare buffer pool while its clock is below MaxPoolTime
MaxPoolTime == 4
\* bytes a caller writes into a page are 1..MaxByte
MaxByte == 2
\* frames of the buffer pool exercised on its own
PoolFrames == 2
\* the replacer's K
ReplacerK == 2

-----------------------------------------------------------------------------
(* Program constants.                                                      *)

INVALID_PAGE_ID == -1
HEADER_PAGE_ID == 0
nullptr == -1
bucket_size_ == 4
\* std::numeric_limits<size_t>::max(); a stand-in of TLC's integer width, the
\* code never compares against it before overwriting it
SIZE_MAX == 2147483647

At(s, i) == s[i + 1]

Min(a, b) == IF a < b THEN a ELSE b

RECURSIVE Pow2(_)
Pow2(n) == IF n <= 0 THEN 1 ELSE 2 * Pow2(n - 1)

\* the image of a sequence
Range(s) == {s[i] : i \in DOMAIN s}

\* the ascending enumeration of a finite set of integers
RECURSIVE SortedSeq(_)
SortedSeq(S) ==
    IF S = {} THEN <<>>
    ELSE LET m == CHOOSE x \in S : \A y \in S : x <= y
         IN  <<m>> \o SortedSeq(S \ {m})

\* s with the element at sequence index i removed
RemoveAt(s, i) == SubSeq(s, 1, i - 1) \o SubSeq(s, i + 1, Len(s))

\* s with e inserted so that it ends at sequence index i
InsertAt(s, i, e) == SubSeq(s, 1, i - 1) \o <<e>> \o SubSeq(s, i, Len(s))

-----------------------------------------------------------------------------
(* Page contents.  A page's bytes are all zero (ResetMemory, or a page the *)
(* disk never stored), bytes a caller wrote, a header page or a tree node. *)

ZeroData == [kind |-> "zero"]

RawData(b) == [kind |-> "raw", bytes |-> b]

-----------------------------------------------------------------------------
(* Extendible hash table.  A table is a record of global_depth,            *)
(* bucket_size, directory (a sequence of bucket identities, the            *)
(* shared_ptrs) and buckets (identity -> [depth, items]).                  *)

\* std::hash<int> is the identity; masking below keeps the low bits
Hash(key) == key

Bucket(depth) == [depth |-> depth, items |-> <<>>]

BucketFind(b, key) ==
    LET hits == {i \in DOMAIN b.items : b.items[i].first = key}
    IN  IF hits = {} THEN [found |-> FALSE, value |-> nullptr]
        ELSE LET i == CHOOSE j \in hits : \A l \in hits : j <= l
             IN  [found |-> TRUE, value |-> b.items[i].second]

BucketRemove(b, key) ==
    LET hits == {i \in DOMAIN b.items : b.items[i].first = key}
    IN  IF hits = {} THEN [ok |-> FALSE, bucket |-> b]
        ELSE LET i == CHOOSE j \in hits : \A l \in hits : j <= l
             IN  [ok |-> TRUE, bucket |-> [b EXCEPT !.items = RemoveAt(b.items, i)]]

\* Bucket::Insert without the search for a key already present
BucketInsertNoOverwrite(b, key, value, max_size) ==
    IF Len(b.items) >= max_size
    THEN [ok |-> FALSE, bucket |-> b]
    ELSE [ok |-> TRUE,
          bucket |-> [b EXCEPT !.items = Append(b.items, [first |-> key, second |-> value])]]

BucketInsert(b, key, value, max_size) ==
    LET hits == {i \in DOMAIN b.items : b.items[i].first = key}
    IN  IF hits # {}
        THEN LET i == CHOOSE j \in hits : \A l \in hits : j <= l
             IN  [ok |-> TRUE, bucket |-> [b EXCEPT !.items[i].second = value]]
        ELSE IF Len(b.items) >= max_size
        THEN [ok |-> FALSE, bucket |-> b]
        ELSE [ok |-> TRUE,
              bucket |-> [b EXCEPT !.items = Append(b.items, [first |-> key, second |-> value])]]

ExtendibleHashTable(bucket_size) ==
    [global_depth |-> 0,
     bucket_size  |-> bucket_size,
     directory    |-> <<0>>,
     buckets      |-> (0 :> Bucket(0))]

IndexOf(h, key) == Hash(key) % Pow2(h.global_depth)

HTFind(h, key) == BucketFind(h.buckets[At(h.directory, IndexOf(h, key))], key)

HTRemove(h, key) ==
    LET id == At(h.directory, IndexOf(h, key))
    IN  [h EXCEPT !.buckets[id] = BucketRemove(h.buckets[id], key).bucket]

\* the items of a bucket rehashed into a fresh bucket of depth + 1: those whose
\* hash has bit `mask` equal to `bit`
RECURSIVE Rehash(_, _, _, _, _)
Rehash(items, mask, bit, acc, max_size) ==
    IF items = <<>> THEN acc
    ELSE LET it == Head(items)
             mine == ((Hash(it.first) \div mask) % 2) = bit
         IN  Rehash(Tail(items), mask, bit,
                    IF mine THEN BucketInsert(acc, it.first, it.second, max_size).bucket
                    ELSE acc,
                    max_size)

\* two identities no bucket of the table has: what make_shared returns
FreshIds(h) ==
    LET used == DOMAIN h.buckets
        a == CHOOSE x \in 0..(Cardinality(used) + 1) : x \notin used
        b == CHOOSE x \in 0..(Cardinality(used) + 1) : x \notin used /\ x # a
    IN  <<a, b>>

\* SplitBucket with new_bucket1 left empty
SplitBucketLowerOnly(h, directory_index) ==
    LET old == At(h.directory, directory_index)
        local_depth == h.buckets[old].depth
        items == h.buckets[old].items
        Redirect(ids, mask) ==
            [i \in DOMAIN h.directory |->
                IF h.directory[i] = old
                THEN (IF ((i - 1) \div mask) % 2 = 0 THEN ids[1] ELSE ids[2])
                ELSE h.directory[i]]
        Rebuild(ids, dir, new_bucket0, new_bucket1) ==
            [h EXCEPT !.directory = dir,
                      !.buckets = [id \in Range(dir) |->
                                     IF id = ids[1] THEN new_bucket0
                                     ELSE IF id = ids[2] THEN new_bucket1
                                     ELSE h.buckets[id]]]
        Divide(ids, mask) ==
            Rebuild(ids, Redirect(ids, mask),
                    Rehash(items, mask, 0, Bucket(local_depth + 1), h.bucket_size),
                    Bucket(local_depth + 1))
    IN  Divide(FreshIds(h), Pow2(local_depth))

SplitBucket(h, directory_index) ==
    LET old == At(h.directory, directory_index)
        local_depth == h.buckets[old].depth
        items == h.buckets[old].items
        Redirect(ids, mask) ==
            [i \in DOMAIN h.directory |->
                IF h.directory[i] = old
                THEN (IF ((i - 1) \div mask) % 2 = 0 THEN ids[1] ELSE ids[2])
                ELSE h.directory[i]]
        \* a bucket no directory slot refers to is released
        Rebuild(ids, dir, new_bucket0, new_bucket1) ==
            [h EXCEPT !.directory = dir,
                      !.buckets = [id \in Range(dir) |->
                                     IF id = ids[1] THEN new_bucket0
                                     ELSE IF id = ids[2] THEN new_bucket1
                                     ELSE h.buckets[id]]]
        Divide(ids, mask) ==
            Rebuild(ids, Redirect(ids, mask),
                    Rehash(items, mask, 0, Bucket(local_depth + 1), h.bucket_size),
                    Rehash(items, mask, 1, Bucket(local_depth + 1), h.bucket_size))
    IN  Divide(FreshIds(h), Pow2(local_depth))

\* Insert doubling the directory without global_depth_++
RECURSIVE HTInsertKeepDepth(_, _, _)
HTInsertKeepDepth(h, key, value) ==
    LET Grown(id) ==
            IF h.buckets[id].depth = h.global_depth
            THEN [h EXCEPT !.directory = h.directory \o h.directory]
            ELSE h
        Try(directory_index, id, try) ==
            IF try.ok THEN [h EXCEPT !.buckets[id] = try.bucket]
            ELSE HTInsertKeepDepth(SplitBucket(Grown(id), directory_index), key, value)
        In(directory_index, id) ==
            Try(directory_index, id,
                BucketInsert(h.buckets[id], key, value, h.bucket_size))
        At0(directory_index) == In(directory_index, At(h.directory, directory_index))
    IN  At0(IndexOf(h, key))

RECURSIVE HTInsert(_, _, _)
HTInsert(h, key, value) ==
    LET Grown(id) ==
            IF h.buckets[id].depth = h.global_depth
            THEN [h EXCEPT !.directory = h.directory \o h.directory,
                           !.global_depth = h.global_depth + 1]
            ELSE h
        Try(directory_index, id, try) ==
            IF try.ok THEN [h EXCEPT !.buckets[id] = try.bucket]
            ELSE HTInsert(SplitBucket(Grown(id), directory_index), key, value)
        In(directory_index, id) ==
            Try(directory_index, id,
                BucketInsert(h.buckets[id], key, value, h.bucket_size))
        At0(directory_index) == In(directory_index, At(h.directory, directory_index))
    IN  At0(IndexOf(h, key))

\* GetNumBuckets with every directory slot counted
GetNumBucketsSlots(h) == Len(h.directory)

\* the loop of GetNumBuckets: unique_buckets after the slots of directory
RECURSIVE UniqueBuckets(_, _)
UniqueBuckets(directory, unique_buckets) ==
    IF directory = <<>> THEN unique_buckets
    ELSE UniqueBuckets(Tail(directory),
                       IF Head(directory) \in Range(unique_buckets) THEN unique_buckets
                       ELSE Append(unique_buckets, Head(directory)))

GetNumBuckets(h) == Len(UniqueBuckets(h.directory, <<>>))

-----------------------------------------------------------------------------
(* LRU-K replacer.  frame_table_ maps a tracked frame to its               *)
(* access_timestamps (oldest first) and its is_evictable flag.             *)

LRUKReplacer(num_frames, k) ==
    [replacer_size     |-> num_frames,
     k                 |-> k,
     frame_table       |-> <<>>,
     curr_size         |-> 0,
     current_timestamp |-> 0]

InvalidFrame(r, frame_id) == frame_id < 0 \/ frame_id >= r.replacer_size

\* EvictStep with the comparison among under-K frames reversed
EvictStepLatest(r, c, fid) ==
    LET history == r.frame_table[fid]
        timestamps == history.ts
    IN  IF ~history.ev THEN c
        ELSE IF Len(timestamps) < r.k
        THEN LET earliest_time == IF timestamps = <<>> THEN 0 ELSE Head(timestamps)
             IN  IF ~c.found_inf
                 THEN [c EXCEPT !.candidate = fid, !.earliest = earliest_time,
                                !.found_inf = TRUE]
                 ELSE IF earliest_time > c.earliest
                 THEN [c EXCEPT !.candidate = fid, !.earliest = earliest_time]
                 ELSE c
        ELSE LET kth_previous_time == Head(timestamps)
                 distance == r.current_timestamp - kth_previous_time
             IN  IF c.found_inf THEN c
                 ELSE IF c.candidate = -1 \/ distance > c.distance
                 THEN [c EXCEPT !.candidate = fid, !.distance = distance,
                                !.earliest = kth_previous_time]
                 ELSE IF distance = c.distance /\ kth_previous_time < c.earliest
                 THEN [c EXCEPT !.candidate = fid, !.earliest = kth_previous_time]
                 ELSE c

\* one iteration of Evict's loop over frame_table_
EvictStep(r, c, fid) ==
    LET history == r.frame_table[fid]
        timestamps == history.ts
    IN  IF ~history.ev THEN c
        ELSE IF Len(timestamps) < r.k
        THEN LET earliest_time == IF timestamps = <<>> THEN 0 ELSE Head(timestamps)
             IN  IF ~c.found_inf
                 THEN [c EXCEPT !.candidate = fid, !.earliest = earliest_time,
                                !.found_inf = TRUE]
                 ELSE IF earliest_time < c.earliest
                 THEN [c EXCEPT !.candidate = fid, !.earliest = earliest_time]
                 ELSE c
        ELSE LET kth_previous_time == Head(timestamps)
                 distance == r.current_timestamp - kth_previous_time
             IN  IF c.found_inf THEN c
                 ELSE IF c.candidate = -1 \/ distance > c.distance
                 THEN [c EXCEPT !.candidate = fid, !.distance = distance,
                                !.earliest = kth_previous_time]
                 ELSE IF distance = c.distance /\ kth_previous_time < c.earliest
                 THEN [c EXCEPT !.candidate = fid, !.earliest = kth_previous_time]
                 ELSE c

RECURSIVE EvictScan(_, _, _)
EvictScan(r, c, fids) ==
    IF fids = <<>> THEN c
    ELSE EvictScan(r, EvictStep(r, c, Head(fids)), Tail(fids))

\* Timestamps are pairwise distinct, so the frame chosen does not depend on the
\* order in which frame_table_ is iterated; the scan takes ascending frame ids.
Evict(r) ==
    IF r.curr_size = 0 THEN [ok |-> FALSE, frame_id |-> -1, rep |-> r]
    ELSE LET Chosen(c) ==
                 IF c.candidate = -1 THEN [ok |-> FALSE, frame_id |-> -1, rep |-> r]
                 ELSE [ok |-> TRUE, frame_id |-> c.candidate,
                       rep |-> [r EXCEPT
                          !.frame_table = [f \in DOMAIN r.frame_table \ {c.candidate} |->
                                              r.frame_table[f]],
                          !.curr_size = r.curr_size - 1]]
         IN  Chosen(EvictScan(r, [candidate |-> -1, distance |-> 0,
                                  earliest |-> SIZE_MAX, found_inf |-> FALSE],
                              SortedSeq(DOMAIN r.frame_table)))

\* RecordAccess advancing current_timestamp_ before the frame id check
RecordAccessClockFirst(r, frame_id) ==
    IF InvalidFrame(r, frame_id)
    THEN [exc |-> TRUE, what |-> "Invalid frame id",
          rep |-> [r EXCEPT !.current_timestamp = r.current_timestamp + 1]]
    ELSE LET now == r.current_timestamp + 1
             inserted == frame_id \notin DOMAIN r.frame_table
             old == IF inserted THEN [ts |-> <<>>, ev |-> FALSE]
                    ELSE r.frame_table[frame_id]
             pushed == Append(old.ts, now)
             kept == IF Len(pushed) > r.k THEN Tail(pushed) ELSE pushed
         IN  [exc |-> FALSE, what |-> "",
              rep |-> [r EXCEPT
                 !.current_timestamp = now,
                 !.frame_table = [f \in DOMAIN r.frame_table \cup {frame_id} |->
                                     IF f = frame_id THEN [ts |-> kept, ev |-> old.ev]
                                     ELSE r.frame_table[f]]]]

\* RecordAccess without the pop_front of the oldest timestamp
RecordAccessNoTrim(r, frame_id) ==
    IF InvalidFrame(r, frame_id)
    THEN [exc |-> TRUE, what |-> "Invalid frame id", rep |-> r]
    ELSE LET now == r.current_timestamp + 1
             inserted == frame_id \notin DOMAIN r.frame_table
             old == IF inserted THEN [ts |-> <<>>, ev |-> FALSE]
                    ELSE r.frame_table[frame_id]
         IN  [exc |-> FALSE, what |-> "",
              rep |-> [r EXCEPT
                 !.current_timestamp = now,
                 !.frame_table = [f \in DOMAIN r.frame_table \cup {frame_id} |->
                                     IF f = frame_id
                                     THEN [ts |-> Append(old.ts, now), ev |-> old.ev]
                                     ELSE r.frame_table[f]]]]

\* each replacer call gives [exc, what, rep]: whether it threw, the message of
\* the exception thrown, and the replacer after it
RecordAccess(r, frame_id) ==
    IF InvalidFrame(r, frame_id)
    THEN [exc |-> TRUE, what |-> "Invalid frame id", rep |-> r]
    ELSE LET now == r.current_timestamp + 1
             inserted == frame_id \notin DOMAIN r.frame_table
             old == IF inserted THEN [ts |-> <<>>, ev |-> FALSE]
                    ELSE r.frame_table[frame_id]
             pushed == Append(old.ts, now)
             kept == IF Len(pushed) > r.k THEN Tail(pushed) ELSE pushed
         IN  [exc |-> FALSE, what |-> "",
              rep |-> [r EXCEPT
                 !.current_timestamp = now,
                 !.frame_table = [f \in DOMAIN r.frame_table \cup {frame_id} |->
                                     IF f = frame_id THEN [ts |-> kept, ev |-> old.ev]
                                     ELSE r.frame_table[f]]]]

\* SetEvictable without the return taken when the flag already has the value
SetEvictableAlwaysCounts(r, frame_id, set_evictable) ==
    IF InvalidFrame(r, frame_id)
    THEN [exc |-> TRUE, what |-> "Invalid frame id", rep |-> r]
    ELSE IF frame_id \notin DOMAIN r.frame_table THEN [exc |-> FALSE, what |-> "", rep |-> r]
    ELSE [exc |-> FALSE, what |-> "",
          rep |-> [r EXCEPT !.frame_table[frame_id].ev = set_evictable,
                            !.curr_size = IF set_evictable THEN r.curr_size + 1
                                          ELSE r.curr_size - 1]]

SetEvictable(r, frame_id, set_evictable) ==
    IF InvalidFrame(r, frame_id)
    THEN [exc |-> TRUE, what |-> "Invalid frame id", rep |-> r]
    ELSE IF frame_id \notin DOMAIN r.frame_table THEN [exc |-> FALSE, what |-> "", rep |-> r]
    ELSE IF r.frame_table[frame_id].ev = set_evictable THEN [exc |-> FALSE, what |-> "", rep |-> r]
    ELSE [exc |-> FALSE, what |-> "",
          rep |-> [r EXCEPT !.frame_table[frame_id].ev = set_evictable,
                            !.curr_size = IF set_evictable THEN r.curr_size + 1
                                          ELSE r.curr_size - 1]]

\* Remove without the is_evictable check
ReplacerRemoveNoCheck(r, frame_id) ==
    IF InvalidFrame(r, frame_id)
    THEN [exc |-> TRUE, what |-> "Invalid frame id", rep |-> r]
    ELSE IF frame_id \notin DOMAIN r.frame_table THEN [exc |-> FALSE, what |-> "", rep |-> r]
    ELSE [exc |-> FALSE, what |-> "",
          rep |-> [r EXCEPT
             !.frame_table = [f \in DOMAIN r.frame_table \ {frame_id} |-> r.frame_table[f]],
             !.curr_size = r.curr_size - 1]]

ReplacerRemove(r, frame_id) ==
    IF InvalidFrame(r, frame_id)
    THEN [exc |-> TRUE, what |-> "Invalid frame id", rep |-> r]
    ELSE IF frame_id \notin DOMAIN r.frame_table THEN [exc |-> FALSE, what |-> "", rep |-> r]
    ELSE IF ~r.frame_table[frame_id].ev
    THEN [exc |-> TRUE, what |-> "Cannot remove non-evictable frame", rep |-> r]
    ELSE [exc |-> FALSE, what |-> "",
          rep |-> [r EXCEPT
             !.frame_table = [f \in DOMAIN r.frame_table \ {frame_id} |-> r.frame_table[f]],
             !.curr_size = r.curr_size - 1]]

ReplacerSize(r) == r.curr_size

-----------------------------------------------------------------------------
(* Disk manager (external): page-granular storage.  A page never written   *)
(* reads as zero bytes.                                                    *)

WritePage(disk, page_id, data) ==
    [p \in DOMAIN disk \cup {page_id} |-> IF p = page_id THEN data ELSE disk[p]]

ReadPage(disk, page_id) ==
    IF page_id \in DOMAIN disk THEN disk[page_id] ELSE ZeroData

-----------------------------------------------------------------------------
(* Buffer pool manager instance.  pages is the frame array pages_; every   *)
(* call below is the body run under latch_ and gives a record with the     *)
(* pool after the call (bpm), the Page* returned (page: a frame index or   *)
(* nullptr), the bool returned (ret) and whether an exception left it (exc)*)

VacantPage ==
    [page_id |-> INVALID_PAGE_ID, pin_count |-> 0, is_dirty |-> FALSE, data |-> ZeroData]

BufferPoolManagerInstance(pool_size, replacer_k) ==
    [pool_size    |-> pool_size,
     next_page_id |-> 0,
     pages        |-> [f \in 0..(pool_size - 1) |-> VacantPage],
     page_table   |-> ExtendibleHashTable(bucket_size_),
     replacer     |-> LRUKReplacer(pool_size, replacer_k),
     free_list    |-> [i \in 1..pool_size |-> i - 1],
     disk         |-> <<>>]

\* TakeFrame with the write-back of a dirty victim left out
TakeFrameNoWriteBack(s) ==
    LET Victim(e) ==
            IF ~e.ok THEN [ok |-> FALSE, frame_id |-> -1, bpm |-> s]
            ELSE [ok |-> TRUE, frame_id |-> e.frame_id,
                  bpm |-> [s EXCEPT !.replacer = e.rep,
                                    !.pages[e.frame_id].is_dirty = FALSE,
                                    !.page_table = HTRemove(s.page_table,
                                                      s.pages[e.frame_id].page_id)]]
    IN  IF s.free_list # <<>>
        THEN [ok |-> TRUE, frame_id |-> Head(s.free_list),
              bpm |-> [s EXCEPT !.free_list = Tail(s.free_list)]]
        ELSE Victim(Evict(s.replacer))

\* TakeFrame with the victim's page table entry left in place
TakeFrameKeepEntry(s) ==
    LET Victim(e) ==
            IF ~e.ok THEN [ok |-> FALSE, frame_id |-> -1, bpm |-> s]
            ELSE LET victim == s.pages[e.frame_id]
                 IN  [ok |-> TRUE, frame_id |-> e.frame_id,
                      bpm |-> [s EXCEPT !.replacer = e.rep,
                                 !.disk = IF victim.is_dirty
                                          THEN WritePage(s.disk, victim.page_id, victim.data)
                                          ELSE s.disk,
                                 !.pages[e.frame_id].is_dirty = FALSE]]
    IN  IF s.free_list # <<>>
        THEN [ok |-> TRUE, frame_id |-> Head(s.free_list),
              bpm |-> [s EXCEPT !.free_list = Tail(s.free_list)]]
        ELSE Victim(Evict(s.replacer))

\* the frame a new or fetched page will occupy: the head of the free list, else
\* the replacer's victim, written back when dirty and dropped from the page table
TakeFrame(s) ==
    LET Victim(e) ==
            IF ~e.ok THEN [ok |-> FALSE, frame_id |-> -1, bpm |-> s]
            ELSE LET f == e.frame_id
                     victim == s.pages[f]
                 IN  [ok |-> TRUE, frame_id |-> f,
                      bpm |-> [s EXCEPT
                         !.replacer = e.rep,
                         !.disk = IF victim.is_dirty
                                  THEN WritePage(s.disk, victim.page_id, victim.data)
                                  ELSE s.disk,
                         !.pages[f].is_dirty = FALSE,
                         !.page_table = HTRemove(s.page_table, victim.page_id)]]
    IN  IF s.free_list # <<>>
        THEN [ok |-> TRUE, frame_id |-> Head(s.free_list),
              bpm |-> [s EXCEPT !.free_list = Tail(s.free_list)]]
        ELSE Victim(Evict(s.replacer))

\* Touch with the SetEvictable(frame_id, false) call left out
TouchNoSetEvictable(s, frame_id) ==
    LET Recorded(a) ==
            IF a.exc THEN [exc |-> TRUE, bpm |-> s]
            ELSE [exc |-> FALSE, bpm |-> [s EXCEPT !.replacer = a.rep]]
    IN  Recorded(RecordAccess(s.replacer, frame_id))

\* RecordAccess(frame_id); SetEvictable(frame_id, false) as the pool calls them
Touch(s, frame_id) ==
    LET Pinned(b) == [exc |-> b.exc, bpm |-> [s EXCEPT !.replacer = b.rep]]
        Recorded(a) ==
            IF a.exc THEN [exc |-> TRUE, bpm |-> s]
            ELSE Pinned(SetEvictable(a.rep, frame_id, FALSE))
    IN  Recorded(RecordAccess(s.replacer, frame_id))

\* what NewPgImp and FetchPgImp return once the frame f was touched
Handed(s2, f, page_id) ==
    [bpm |-> s2.bpm, page |-> IF s2.exc THEN nullptr ELSE f,
     page_id |-> page_id, ret |-> ~s2.exc, exc |-> s2.exc]

\* the second half of NewPgImp, with the frame in hand: allocate the id, reset
\* the frame, enter it in the page table, record the access
NewInstall(s, f) ==
    LET page_id == s.next_page_id
    IN  Handed(Touch([s EXCEPT
                        !.next_page_id = page_id + 1,
                        !.pages[f] = [page_id |-> page_id, pin_count |-> 1,
                                      is_dirty |-> FALSE, data |-> ZeroData],
                        !.page_table = HTInsert(s.page_table, page_id, f)], f),
               f, page_id)

\* NewPgImp with AllocatePage called before a frame is looked for
NewPgImpAllocFirst(s) ==
    LET Taken(t) ==
            IF ~t.ok
            THEN [bpm |-> [s EXCEPT !.next_page_id = s.next_page_id + 1],
                  page |-> nullptr, page_id |-> INVALID_PAGE_ID,
                  ret |-> FALSE, exc |-> FALSE]
            ELSE NewInstall(t.bpm, t.frame_id)
    IN  Taken(TakeFrame(s))

\* page_id is *page_id, which a failed call does not assign
NewPgImp(s) ==
    LET Taken(t) ==
            IF ~t.ok
            THEN [bpm |-> s, page |-> nullptr, page_id |-> INVALID_PAGE_ID,
                  ret |-> FALSE, exc |-> FALSE]
            ELSE NewInstall(t.bpm, t.frame_id)
    IN  Taken(TakeFrame(s))

\* FetchPgImp when the page table has the page, in frame f
FetchHit(s, f, page_id) ==
    Handed(Touch([s EXCEPT !.pages[f].pin_count = s.pages[f].pin_count + 1], f),
           f, page_id)

\* the second half of a FetchPgImp that missed, with the frame in hand
FetchInstall(s, f, page_id) ==
    Handed(Touch([s EXCEPT
                    !.pages[f] = [page_id |-> page_id, pin_count |-> 1,
                                  is_dirty |-> FALSE,
                                  data |-> ReadPage(s.disk, page_id)],
                    !.page_table = HTInsert(s.page_table, page_id, f)], f),
           f, page_id)

FetchPgImp(s, page_id) ==
    LET Taken(t) ==
            IF ~t.ok
            THEN [bpm |-> s, page |-> nullptr, page_id |-> page_id,
                  ret |-> FALSE, exc |-> FALSE]
            ELSE FetchInstall(t.bpm, t.frame_id, page_id)
        Looked(hit) ==
            IF hit.found THEN FetchHit(s, hit.value, page_id)
            ELSE Taken(TakeFrame(s))
    IN  Looked(HTFind(s.page_table, page_id))

\* UnpinApply that never tells the replacer the frame became evictable
UnpinApplyNoSetEvictable(s, f, is_dirty) ==
    [bpm |-> [s EXCEPT !.pages[f].pin_count = s.pages[f].pin_count - 1,
                       !.pages[f].is_dirty = s.pages[f].is_dirty \/ is_dirty],
     ret |-> TRUE, exc |-> FALSE]

\* UnpinApply with is_dirty_ assigned the argument instead of set when it is true
UnpinApplyAssignDirty(s, f, is_dirty) ==
    LET s1 == [s EXCEPT !.pages[f].pin_count = s.pages[f].pin_count - 1,
                        !.pages[f].is_dirty = is_dirty]
        Marked(e) == [bpm |-> [s1 EXCEPT !.replacer = e.rep], ret |-> ~e.exc, exc |-> e.exc]
    IN  Marked(IF s1.pages[f].pin_count = 0
               THEN SetEvictable(s1.replacer, f, TRUE)
               ELSE [exc |-> FALSE, rep |-> s1.replacer])

\* UnpinPgImp once the page was found in frame f with a positive pin count
UnpinApply(s, f, is_dirty) ==
    LET s1 == [s EXCEPT !.pages[f].pin_count = s.pages[f].pin_count - 1,
                        !.pages[f].is_dirty = s.pages[f].is_dirty \/ is_dirty]
        Marked(e) == [bpm |-> [s1 EXCEPT !.replacer = e.rep], ret |-> ~e.exc, exc |-> e.exc]
    IN  Marked(IF s1.pages[f].pin_count = 0
               THEN SetEvictable(s1.replacer, f, TRUE)
               ELSE [exc |-> FALSE, rep |-> s1.replacer])

\* UnpinPgImp with the pin_count_ == 0 test left out
UnpinPgImpNoZeroCheck(s, page_id, is_dirty) ==
    LET Looked(hit) ==
            IF ~hit.found THEN [bpm |-> s, ret |-> FALSE, exc |-> FALSE]
            ELSE UnpinApply(s, hit.value, is_dirty)
    IN  Looked(HTFind(s.page_table, page_id))

UnpinPgImp(s, page_id, is_dirty) ==
    LET Looked(hit) ==
            IF ~hit.found THEN [bpm |-> s, ret |-> FALSE, exc |-> FALSE]
            ELSE IF s.pages[hit.value].pin_count = 0
            THEN [bpm |-> s, ret |-> FALSE, exc |-> FALSE]
            ELSE UnpinApply(s, hit.value, is_dirty)
    IN  Looked(HTFind(s.page_table, page_id))

\* FlushPgImp writing the page only when the frame is dirty
FlushPgImpOnlyDirty(s, page_id) ==
    LET Looked(hit) ==
            IF ~hit.found THEN [bpm |-> s, ret |-> FALSE, exc |-> FALSE]
            ELSE [bpm |-> [s EXCEPT
                             !.disk = IF s.pages[hit.value].is_dirty
                                      THEN WritePage(s.disk, page_id, s.pages[hit.value].data)
                                      ELSE s.disk,
                             !.pages[hit.value].is_dirty = FALSE],
                  ret |-> TRUE, exc |-> FALSE]
    IN  IF page_id = INVALID_PAGE_ID THEN [bpm |-> s, ret |-> FALSE, exc |-> FALSE]
        ELSE Looked(HTFind(s.page_table, page_id))

FlushPgImp(s, page_id) ==
    LET Looked(hit) ==
            IF ~hit.found THEN [bpm |-> s, ret |-> FALSE, exc |-> FALSE]
            ELSE [bpm |-> [s EXCEPT
                             !.disk = WritePage(s.disk, page_id, s.pages[hit.value].data),
                             !.pages[hit.value].is_dirty = FALSE],
                  ret |-> TRUE, exc |-> FALSE]
    IN  IF page_id = INVALID_PAGE_ID THEN [bpm |-> s, ret |-> FALSE, exc |-> FALSE]
        ELSE Looked(HTFind(s.page_table, page_id))

\* one iteration of FlushAllPgsImp's loop, for frame i
FlushFrame(s, i) ==
    LET pid == s.pages[i].page_id
        Looked(hit) ==
            IF pid # INVALID_PAGE_ID /\ hit.found /\ s.pages[hit.value].is_dirty
            THEN [s EXCEPT !.disk = WritePage(s.disk, pid, s.pages[i].data),
                           !.pages[i].is_dirty = FALSE]
            ELSE s
    IN  Looked(HTFind(s.page_table, pid))

RECURSIVE FlushFrom(_, _)
FlushFrom(s, i) == IF i >= s.pool_size THEN s ELSE FlushFrom(FlushFrame(s, i), i + 1)

FlushAllPgsImp(s) == [bpm |-> FlushFrom(s, 0), ret |-> TRUE, exc |-> FALSE]

\* DeleteApply with the free_list_.push_back(frame_id) left out
DeleteApplyNoFreeList(s, f, page_id) ==
    LET Removed(s1, r) ==
            IF r.exc THEN [bpm |-> s1, ret |-> FALSE, exc |-> TRUE]
            ELSE [bpm |-> [s1 EXCEPT !.replacer = r.rep,
                                     !.pages[f] = VacantPage],
                  ret |-> TRUE, exc |-> FALSE]
        Unmapped(s1) == Removed(s1, ReplacerRemove(s1.replacer, f))
    IN  Unmapped([s EXCEPT !.disk = IF s.pages[f].is_dirty
                                    THEN WritePage(s.disk, page_id, s.pages[f].data)
                                    ELSE s.disk,
                           !.page_table = HTRemove(s.page_table, page_id)])

\* DeleteApply with the replacer_->Remove(frame_id) call left out
DeleteApplyKeepTracked(s, f, page_id) ==
    [bpm |-> [s EXCEPT !.disk = IF s.pages[f].is_dirty
                                THEN WritePage(s.disk, page_id, s.pages[f].data)
                                ELSE s.disk,
                       !.page_table = HTRemove(s.page_table, page_id),
                       !.pages[f] = VacantPage,
                       !.free_list = Append(s.free_list, f)],
     ret |-> TRUE, exc |-> FALSE]

\* DeletePgImp once the page was found in frame f with pin count 0
DeleteApply(s, f, page_id) ==
    LET Removed(s1, r) ==
            IF r.exc THEN [bpm |-> s1, ret |-> FALSE, exc |-> TRUE]
            ELSE [bpm |-> [s1 EXCEPT !.replacer = r.rep,
                                     !.pages[f] = VacantPage,
                                     !.free_list = Append(s1.free_list, f)],
                  ret |-> TRUE, exc |-> FALSE]
        Unmapped(s1) == Removed(s1, ReplacerRemove(s1.replacer, f))
    IN  Unmapped([s EXCEPT !.disk = IF s.pages[f].is_dirty
                                    THEN WritePage(s.disk, page_id, s.pages[f].data)
                                    ELSE s.disk,
                           !.page_table = HTRemove(s.page_table, page_id)])

DeletePgImp(s, page_id) ==
    LET Looked(hit) ==
            IF ~hit.found THEN [bpm |-> s, ret |-> TRUE, exc |-> FALSE]
            ELSE IF s.pages[hit.value].pin_count > 0
            THEN [bpm |-> s, ret |-> FALSE, exc |-> FALSE]
            ELSE DeleteApply(s, hit.value, page_id)
    IN  Looked(HTFind(s.page_table, page_id))

\* the frame, if any, whose page_id field is page_id: what a Page* held by a
\* caller that pinned the page still points at
FrameOf(s, page_id) ==
    LET fs == {f \in DOMAIN s.pages : s.pages[f].page_id = page_id}
    IN  IF fs = {} THEN nullptr ELSE CHOOSE f \in fs : TRUE

-----------------------------------------------------------------------------
(* The buffer pool on its own: one caller making the public calls, each    *)
(* run to completion under latch_.  The caller writes only into pages it   *)
(* has pinned, fetches only page ids the pool has allocated, and reports   *)
(* its writes: after writing a page it passes is_dirty = true no later     *)
(* than on the unpin that releases the last pin.                           *)
(* shadow.bytes is the last contents the caller gave each page (zero when  *)
(* it was created), shadow.owed the pages written and not yet reported.    *)

PageIds == 0..MaxPage

\* last.was_resident: whether the page table had the page when the call began
NoCall == [op |-> "none", page_id |-> INVALID_PAGE_ID, page |-> nullptr,
           ret |-> FALSE, exc |-> FALSE, data |-> ZeroData, was_resident |-> FALSE]

Resident(s, page_id) == HTFind(s.page_table, page_id).found

\* what a Page* to frame f shows its holder
DataAt(s, f) == IF f = nullptr THEN ZeroData ELSE s.pages[f].data

Expected(page_id) ==
    IF page_id \in DOMAIN shadow.bytes THEN shadow.bytes[page_id] ELSE ZeroData

PoolInit ==
    /\ bpm = BufferPoolManagerInstance(PoolFrames, ReplacerK)
    /\ tree = [root_page_id |-> INVALID_PAGE_ID]
    /\ shadow = [bytes |-> <<>>, owed |-> {}]
    /\ last = NoCall
    /\ thr = [latch |-> 0]

NewPage ==
    /\ bpm.replacer.current_timestamp < MaxPoolTime
    /\ LET Done(r) ==
           /\ bpm' = r.bpm
           /\ last' = [op |-> "new", page_id |-> r.page_id, page |-> r.page,
                       ret |-> r.ret, exc |-> r.exc, data |-> DataAt(r.bpm, r.page),
                       was_resident |-> FALSE]
           /\ shadow' = IF r.page = nullptr THEN shadow
                        ELSE [shadow EXCEPT !.bytes =
                                 [p \in DOMAIN shadow.bytes \cup {r.page_id} |->
                                     IF p = r.page_id THEN ZeroData ELSE shadow.bytes[p]]]
       IN  Done(NewPgImp(bpm))
    /\ UNCHANGED <<tree, thr>>

FetchPage(page_id) ==
    /\ bpm.replacer.current_timestamp < MaxPoolTime
    /\ page_id < bpm.next_page_id
    /\ LET Done(r) ==
           /\ bpm' = r.bpm
           /\ last' = [op |-> "fetch", page_id |-> page_id, page |-> r.page,
                       ret |-> r.ret, exc |-> r.exc, data |-> DataAt(r.bpm, r.page),
                       was_resident |-> Resident(bpm, page_id)]
       IN  Done(FetchPgImp(bpm, page_id))
    /\ UNCHANGED <<tree, shadow, thr>>

\* the caller stores bytes through the Page* of a page it holds pinned
WriteData(page_id, b) ==
    /\ Resident(bpm, page_id)
    /\ LET f == HTFind(bpm.page_table, page_id).value
       IN  /\ bpm.pages[f].pin_count > 0
           /\ bpm' = [bpm EXCEPT !.pages[f].data = RawData(b)]
           /\ last' = [op |-> "write", page_id |-> page_id, page |-> f,
                       ret |-> TRUE, exc |-> FALSE, data |-> RawData(b),
                       was_resident |-> TRUE]
    /\ shadow' = [bytes |-> [p \in DOMAIN shadow.bytes \cup {page_id} |->
                               IF p = page_id THEN RawData(b) ELSE shadow.bytes[p]],
                  owed |-> shadow.owed \cup {page_id}]
    /\ UNCHANGED <<tree, thr>>

\* a caller that wrote the page reports it dirty no later than its last unpin
UnpinPage(page_id, is_dirty) ==
    /\ LET hit == HTFind(bpm.page_table, page_id)
       IN  (page_id \in shadow.owed /\ hit.found /\ bpm.pages[hit.value].pin_count = 1)
              => is_dirty
    /\ LET Done(r) ==
           /\ bpm' = r.bpm
           /\ last' = [op |-> IF r.ret /\ is_dirty THEN "unpin_dirty" ELSE "unpin",
                       page_id |-> page_id, page |-> nullptr,
                       ret |-> r.ret, exc |-> r.exc, data |-> ZeroData,
                       was_resident |-> Resident(bpm, page_id)]
           /\ shadow' = IF r.ret /\ is_dirty
                        THEN [shadow EXCEPT !.owed = shadow.owed \ {page_id}]
                        ELSE shadow
       IN  Done(UnpinPgImp(bpm, page_id, is_dirty))
    /\ UNCHANGED <<tree, thr>>

FlushPage(page_id) ==
    /\ LET Done(r) ==
           /\ bpm' = r.bpm
           /\ last' = [op |-> "flush", page_id |-> page_id, page |-> nullptr,
                       ret |-> r.ret, exc |-> r.exc, data |-> ZeroData,
                       was_resident |-> Resident(bpm, page_id)]
       IN  Done(FlushPgImp(bpm, page_id))
    /\ UNCHANGED <<tree, shadow, thr>>

FlushAllPages ==
    /\ LET Done(r) ==
           /\ bpm' = r.bpm
           /\ last' = [op |-> "flush_all", page_id |-> INVALID_PAGE_ID, page |-> nullptr,
                       ret |-> r.ret, exc |-> r.exc, data |-> ZeroData,
                       was_resident |-> FALSE]
       IN  Done(FlushAllPgsImp(bpm))
    /\ UNCHANGED <<tree, shadow, thr>>

DeletePage(page_id) ==
    /\ LET Done(r) ==
           /\ bpm' = r.bpm
           /\ last' = [op |-> "delete", page_id |-> page_id, page |-> nullptr,
                       ret |-> r.ret, exc |-> r.exc, data |-> ZeroData,
                       was_resident |-> Resident(bpm, page_id)]
       IN  Done(DeletePgImp(bpm, page_id))
    /\ UNCHANGED <<tree, shadow, thr>>

PoolNext ==
    \/ NewPage
    \/ \E p \in PageIds : FetchPage(p)
    \/ \E p \in PageIds, b \in 1..MaxByte : WriteData(p, b)
    \/ \E p \in PageIds, d \in BOOLEAN : UnpinPage(p, d)
    \/ \E p \in PageIds \cup {INVALID_PAGE_ID} : FlushPage(p)
    \/ FlushAllPages
    \/ \E p \in PageIds : DeletePage(p)

SpecPool == PoolInit /\ [][PoolNext]_vars

-----------------------------------------------------------------------------
(* Properties of the buffer pool on its own (SpecPool).                    *)

Frames(s) == DOMAIN s.pages

\* what a fetch of page_id would show: the frame's bytes, else the disk's
Observed(s, page_id) ==
    LET hit == HTFind(s.page_table, page_id)
    IN  IF hit.found THEN s.pages[hit.value].data ELSE ReadPage(s.disk, page_id)

\* every (page id, frame) entry held in some bucket of the page table
PageTableItems(h) ==
    UNION {{<<h.buckets[id].items[i].first, h.buckets[id].items[i].second>> :
              i \in DOMAIN h.buckets[id].items} : id \in DOMAIN h.buckets}

IsEvictable(r, f) == f \in DOMAIN r.frame_table /\ r.frame_table[f].ev

\* no free frame and every frame pinned
Exhausted(s) == s.free_list = <<>> /\ \A f \in Frames(s) : s.pages[f].pin_count > 0

\* C6: round trip: whatever mix of new_page, writes to a pinned page,
\* unpin_page(dirty = true), evictions and fetch_page came before, the bytes a
\* fetch shows (and the bytes any page would show: its frame's, or the disk's once
\* it was evicted) are the bytes last written to that page
C6_RoundTrip ==
    /\ \A p \in 0..(bpm.next_page_id - 1) : Observed(bpm, p) = Expected(p)
    /\ (last.op = "fetch" /\ last.page # nullptr) => last.data = Expected(last.page_id)

\* a fetch that had to read the page back from disk showed bytes the caller wrote
C6_Witness ==
    /\ last.op = "fetch" /\ last.page # nullptr /\ ~last.was_resident
    /\ last.data.kind = "raw"
    /\ last.data = Expected(last.page_id)

\* C7: a frame that holds a page with pin_count > 0 is not evictable in the
\* replacer, so Evict never yields a pinned frame
C7_PinnedNotEvictable ==
    /\ \A f \in Frames(bpm) :
          (bpm.pages[f].page_id # INVALID_PAGE_ID /\ bpm.pages[f].pin_count > 0)
             => ~IsEvictable(bpm.replacer, f)
    /\ LET e == Evict(bpm.replacer)
       IN  e.ok => bpm.pages[e.frame_id].pin_count = 0

\* a page that was unpinned to 0 (hence evictable) was fetched again and is pinned
C7_Witness ==
    /\ last.op = "fetch" /\ last.page # nullptr /\ last.was_resident
    /\ bpm.pages[last.page].pin_count = 1
    /\ bpm.replacer.curr_size > 0

\* C8: the page table maps page p to frame f exactly when frame f's page_id is p
C8_PageTableIffFrame ==
    /\ \A e \in PageTableItems(bpm.page_table) :
          e[2] \in Frames(bpm) /\ bpm.pages[e[2]].page_id = e[1]
    /\ \A f \in Frames(bpm) :
          bpm.pages[f].page_id # INVALID_PAGE_ID =>
             LET hit == HTFind(bpm.page_table, bpm.pages[f].page_id)
             IN  hit.found /\ hit.value = f
    /\ \A e1, e2 \in PageTableItems(bpm.page_table) : e1[2] = e2[2] => e1 = e2

\* a new page took the frame of an evicted page, which the table no longer maps
C8_Witness ==
    /\ last.op = "new" /\ last.page # nullptr
    /\ \E p \in 0..(bpm.next_page_id - 1) :
          /\ ~Resident(bpm, p)
          /\ p \in DOMAIN bpm.disk
    /\ bpm.free_list = <<>>

\* C10: new_page, and fetch_page of a page that is not resident, return nullptr
\* exactly when the free list is empty and every frame is pinned, and then change
\* nothing; once an unpin brings a page to pin_count 0, new_page succeeds
C10_NoneIffExhausted ==
    /\ LET r == NewPgImp(bpm)
       IN  /\ (r.page = nullptr) <=> Exhausted(bpm)
           /\ r.page = nullptr => r.bpm = bpm
    /\ \A p \in 0..(bpm.next_page_id - 1) :
          ~Resident(bpm, p) =>
             LET r == FetchPgImp(bpm, p)
             IN  /\ (r.page = nullptr) <=> Exhausted(bpm)
                 /\ r.page = nullptr => r.bpm = bpm
    /\ \A p \in PageIds, d \in BOOLEAN :
          LET u == UnpinPgImp(bpm, p, d)
          IN  (u.ret /\ Resident(u.bpm, p)
                 /\ u.bpm.pages[HTFind(u.bpm.page_table, p).value].pin_count = 0)
                 => NewPgImp(u.bpm).page # nullptr
    /\ (last.op = "new" /\ last.page = nullptr) => Exhausted(bpm)
    /\ (last.op = "new" /\ last.page # nullptr) => last.page_id = bpm.next_page_id - 1

\* new_page found every frame pinned and returned nullptr
C10_Witness ==
    /\ last.op = "new" /\ last.page = nullptr
    /\ Exhausted(bpm)
    /\ \E p \in PageIds : Resident(bpm, p)

\* C11: unpin_page(p, d) returns false and changes nothing when p is not
\* resident or its pin_count is 0, so that a second unpin of a page brought to
\* 0 returns false and no pin_count is ever negative; otherwise it lowers
\* pin_count by exactly 1 and leaves the frame evictable exactly when pin_count
\* has reached 0
C11_UnpinContract ==
    /\ \A f \in Frames(bpm) : bpm.pages[f].pin_count >= 0
    /\ \A p \in PageIds \cup {INVALID_PAGE_ID}, d \in BOOLEAN :
          LET u == UnpinPgImp(bpm, p, d)
              hit == HTFind(bpm.page_table, p)
          IN  IF ~hit.found \/ bpm.pages[hit.value].pin_count = 0
              THEN ~u.ret /\ ~u.exc /\ u.bpm = bpm
              ELSE /\ u.ret /\ ~u.exc
                   /\ u.bpm.pages[hit.value].pin_count
                         = bpm.pages[hit.value].pin_count - 1
                   /\ IsEvictable(u.bpm.replacer, hit.value)
                         <=> u.bpm.pages[hit.value].pin_count = 0
                   /\ \A f \in Frames(bpm) \ {hit.value} :
                         /\ u.bpm.pages[f] = bpm.pages[f]
                         /\ IsEvictable(u.bpm.replacer, f) <=> IsEvictable(bpm.replacer, f)
                   /\ u.bpm.pages[hit.value].pin_count = 0 =>
                         \A d2 \in BOOLEAN :
                            /\ ~UnpinPgImp(u.bpm, p, d2).ret
                            /\ UnpinPgImp(u.bpm, p, d2).bpm = u.bpm
    /\ (last.op \in {"unpin", "unpin_dirty"} /\ ~last.ret) =>
          \/ ~Resident(bpm, last.page_id)
          \/ bpm.pages[HTFind(bpm.page_table, last.page_id).value].pin_count = 0

\* a second unpin of a resident page already at pin_count 0 returned false
C11_Witness ==
    /\ last.op = "unpin" /\ ~last.ret /\ last.was_resident
    /\ Resident(bpm, last.page_id)
    /\ bpm.pages[HTFind(bpm.page_table, last.page_id).value].pin_count = 0
    /\ IsEvictable(bpm.replacer, HTFind(bpm.page_table, last.page_id).value)

\* the resident pages whose frame has the dirty flag set
DirtyPages(s) ==
    {p \in PageIds : Resident(s, p) /\ s.pages[HTFind(s.page_table, p).value].is_dirty}

\* page p is still resident and dirty in s2, or it has left the pool and the
\* disk holds the bytes its frame f had in s
DirtyKeptOrWritten(s, s2, p, f) ==
    IF Resident(s2, p)
    THEN HTFind(s2.page_table, p).value = f /\ s2.pages[f].is_dirty
    ELSE p \in DOMAIN s2.disk /\ s2.disk[p] = s.pages[f].data

\* C12: the dirty flag of a resident page is sticky: unpin_page(p, false) and
\* fetch_page(p) leave it set, and a new_page or a fetch of another page
\* clears it only by evicting the page with a write-back; only flush_page,
\* flush_all_pages, that write-back and delete_page clear it
C12_DirtySticky ==
    /\ \A p \in DirtyPages(bpm) :
          LET f == HTFind(bpm.page_table, p).value
          IN  /\ \A d \in BOOLEAN :
                    UnpinPgImp(bpm, p, d).bpm.pages[f].is_dirty
              /\ FetchPgImp(bpm, p).bpm.pages[f].is_dirty
              /\ DirtyKeptOrWritten(bpm, NewPgImp(bpm).bpm, p, f)
              /\ \A q \in PageIds \ {p} :
                    /\ DirtyKeptOrWritten(bpm, FetchPgImp(bpm, q).bpm, p, f)
                    /\ DirtyKeptOrWritten(bpm, UnpinPgImp(bpm, q, FALSE).bpm, p, f)
                    /\ DirtyKeptOrWritten(bpm, FlushPgImp(bpm, q).bpm, p, f)
                    /\ DirtyKeptOrWritten(bpm, DeletePgImp(bpm, q).bpm, p, f)
    /\ \A p \in PageIds :
          UnpinPgImp(bpm, p, TRUE).ret => p \in DirtyPages(UnpinPgImp(bpm, p, TRUE).bpm)
    /\ (last.op = "unpin_dirty" /\ Resident(bpm, last.page_id)) =>
          last.page_id \in DirtyPages(bpm)

\* an unpin_page(p, false) succeeded on a page that an earlier
\* unpin_page(p, true) had marked, and the flag is still set
C12_Witness ==
    /\ last.op = "unpin" /\ last.ret
    /\ last.page_id \in DirtyPages(bpm)
    /\ last.page_id \notin shadow.owed

\* C13: flush_page(p) on a resident page writes the frame's bytes to disk
\* whether or not the page is dirty, clears the dirty flag and changes nothing
\* else (pin counts, replacer, page table, free list); a second flush_page(p)
\* changes nothing more; on a page that is not resident, or on
\* INVALID_PAGE_ID, it returns false and changes nothing
C13_FlushContract ==
    /\ \A p \in PageIds \cup {INVALID_PAGE_ID} :
          LET r == FlushPgImp(bpm, p)
              hit == HTFind(bpm.page_table, p)
          IN  IF p = INVALID_PAGE_ID \/ ~hit.found
              THEN ~r.ret /\ ~r.exc /\ r.bpm = bpm
              ELSE /\ r.ret /\ ~r.exc
                   /\ p \in DOMAIN r.bpm.disk
                   /\ r.bpm.disk[p] = bpm.pages[hit.value].data
                   /\ \A q \in DOMAIN bpm.disk \ {p} :
                         q \in DOMAIN r.bpm.disk /\ r.bpm.disk[q] = bpm.disk[q]
                   /\ DOMAIN r.bpm.disk = DOMAIN bpm.disk \cup {p}
                   /\ ~r.bpm.pages[hit.value].is_dirty
                   /\ r.bpm.pages = [bpm.pages EXCEPT ![hit.value].is_dirty = FALSE]
                   /\ r.bpm.replacer = bpm.replacer
                   /\ r.bpm.page_table = bpm.page_table
                   /\ r.bpm.free_list = bpm.free_list
                   /\ r.bpm.next_page_id = bpm.next_page_id
                   /\ FlushPgImp(r.bpm, p).ret
                   /\ FlushPgImp(r.bpm, p).bpm = r.bpm
    /\ (last.op = "flush" /\ last.ret) =>
          /\ Resident(bpm, last.page_id)
          /\ ~bpm.pages[HTFind(bpm.page_table, last.page_id).value].is_dirty
          /\ bpm.disk[last.page_id] = bpm.pages[HTFind(bpm.page_table, last.page_id).value].data
    /\ (last.op = "flush" /\ ~last.ret) => ~last.was_resident

\* the only page of the pool, written by its holder and never unpinned, hence
\* clean, was flushed: the disk has the bytes written
C13_Witness ==
    /\ last.op = "flush" /\ last.ret /\ last.page_id = 0
    /\ bpm.replacer.current_timestamp = 1
    /\ bpm.pages[HTFind(bpm.page_table, 0).value].pin_count = 1
    /\ bpm.pages[HTFind(bpm.page_table, 0).value].data.kind = "raw"
    /\ bpm.disk[0] = bpm.pages[HTFind(bpm.page_table, 0).value].data

\* C14: delete_page(p) returns true and changes nothing when p is not
\* resident, returns false and changes nothing when p is resident and pinned,
\* and otherwise writes the page back if it is dirty, takes p out of the page
\* table and its frame out of the replacer, resets the frame to vacant
\* (INVALID_PAGE_ID, pin_count 0, clean), appends the frame to the free list
\* and returns true; it never raises
C14_DeleteContract ==
    /\ \A p \in PageIds :
          LET r == DeletePgImp(bpm, p)
              hit == HTFind(bpm.page_table, p)
          IN  /\ ~r.exc
              /\ IF ~hit.found THEN r.ret /\ r.bpm = bpm
                 ELSE IF bpm.pages[hit.value].pin_count > 0 THEN ~r.ret /\ r.bpm = bpm
                 ELSE /\ r.ret
                      /\ r.bpm.disk = IF bpm.pages[hit.value].is_dirty
                                      THEN WritePage(bpm.disk, p, bpm.pages[hit.value].data)
                                      ELSE bpm.disk
                      /\ ~Resident(r.bpm, p)
                      /\ \A q \in PageIds \ {p} :
                            HTFind(r.bpm.page_table, q) = HTFind(bpm.page_table, q)
                      /\ hit.value \notin DOMAIN r.bpm.replacer.frame_table
                      /\ \A f \in DOMAIN bpm.replacer.frame_table \ {hit.value} :
                            /\ f \in DOMAIN r.bpm.replacer.frame_table
                            /\ r.bpm.replacer.frame_table[f] = bpm.replacer.frame_table[f]
                      /\ ReplacerSize(r.bpm.replacer) = ReplacerSize(bpm.replacer) - 1
                      /\ r.bpm.pages =
                            [bpm.pages EXCEPT ![hit.value] =
                                [page_id |-> INVALID_PAGE_ID, pin_count |-> 0,
                                 is_dirty |-> FALSE, data |-> ZeroData]]
                      /\ r.bpm.free_list = Append(bpm.free_list, hit.value)
                      /\ r.bpm.next_page_id = bpm.next_page_id
    /\ last.op = "delete" =>
          /\ ~last.exc
          /\ last.ret <=> ~Resident(bpm, last.page_id)

\* delete_page took a dirty unpinned page out of the pool: the disk has its
\* bytes and its frame is the last of the free list
C14_Witness ==
    /\ last.op = "delete" /\ last.ret /\ last.was_resident
    /\ ~Resident(bpm, last.page_id)
    /\ last.page_id \in DOMAIN bpm.disk
    /\ bpm.disk[last.page_id].kind = "raw"
    /\ bpm.free_list # <<>>
    /\ bpm.pages[bpm.free_list[Len(bpm.free_list)]].page_id = INVALID_PAGE_ID
    /\ \E q \in PageIds : Resident(bpm, q)

\* the frames of pool s that hold a page
Occupied(s) == {f \in Frames(s) : s.pages[f].page_id # INVALID_PAGE_ID}

\* C40: after every call of the pool the replacer tracks exactly the frames
\* that hold a page; a tracked frame is evictable exactly when its pin count
\* is 0; Size() is the number of resident pages with pin count 0; and the
\* frames on the free list, which hold no page and are listed once each,
\* together with the resident pages number pool_size.
C40_ReplacerMirrorsPool ==
    LET r == bpm.replacer
        items == PageTableItems(bpm.page_table)
    IN  /\ DOMAIN r.frame_table = Occupied(bpm)
        /\ \A f \in DOMAIN r.frame_table :
              r.frame_table[f].ev <=> bpm.pages[f].pin_count = 0
        /\ ReplacerSize(r)
              = Cardinality({e \in items : bpm.pages[e[2]].pin_count = 0})
        /\ Len(bpm.free_list) + Cardinality({e[1] : e \in items}) = bpm.pool_size
        /\ Cardinality(Range(bpm.free_list)) = Len(bpm.free_list)
        /\ Range(bpm.free_list) = Frames(bpm) \ Occupied(bpm)

\* delete_page has just given a frame back to the free list while another
\* frame holds an unpinned page, the one frame the replacer counts
C40_Witness ==
    /\ last.op = "delete" /\ last.ret /\ last.was_resident
    /\ Len(bpm.free_list) = 1
    /\ \E g \in Occupied(bpm) : bpm.pages[g].pin_count = 0
    /\ ReplacerSize(bpm.replacer) = 1

\* C15: the page ids successful new_page calls return are strictly increasing
\* and never reused: a successful call returns next_page_id_, above every id
\* returned before, and advances it by one; a failed call leaves it as it is,
\* and so does every other call, delete_page of an earlier id included
C15_MonotonicPageIds ==
    /\ DOMAIN shadow.bytes = 0..(bpm.next_page_id - 1)
    /\ LET r == NewPgImp(bpm)
       IN  IF r.page = nullptr
           THEN r.bpm.next_page_id = bpm.next_page_id
           ELSE /\ r.page_id = bpm.next_page_id
                /\ r.bpm.next_page_id = bpm.next_page_id + 1
                /\ \A q \in DOMAIN shadow.bytes : q < r.page_id
    /\ \A p \in PageIds :
          /\ FetchPgImp(bpm, p).bpm.next_page_id = bpm.next_page_id
          /\ FlushPgImp(bpm, p).bpm.next_page_id = bpm.next_page_id
          /\ \A d \in BOOLEAN : UnpinPgImp(bpm, p, d).bpm.next_page_id = bpm.next_page_id
          /\ LET r == DeletePgImp(bpm, p)
             IN  /\ r.bpm.next_page_id = bpm.next_page_id
                 /\ NewPgImp(r.bpm).page # nullptr =>
                       /\ NewPgImp(r.bpm).page_id = bpm.next_page_id
                       /\ NewPgImp(r.bpm).page_id # p \/ p >= bpm.next_page_id
    /\ FlushAllPgsImp(bpm).bpm.next_page_id = bpm.next_page_id
    /\ (last.op = "new" /\ last.page # nullptr) =>
          /\ last.page_id = bpm.next_page_id - 1
          /\ bpm.pages[last.page].page_id = last.page_id
    /\ (last.op = "new" /\ last.page = nullptr) => last.page_id = INVALID_PAGE_ID

\* new_page returned a fresh id after an earlier page had been deleted and its
\* frame put back on the free list
C15_Witness ==
    /\ last.op = "new" /\ last.page # nullptr /\ last.page_id >= 1
    /\ \E p \in 0..(last.page_id - 1) : ~Resident(bpm, p) /\ p \notin DOMAIN bpm.disk
    /\ bpm.free_list # <<>>

-----------------------------------------------------------------------------
(* The buffer pool called from several threads (SpecPoolMT).  Every public  *)
(* method opens with std::scoped_lock<std::mutex> lock(latch_) and holds it *)
(* to its return.  A call is two steps of its thread: the first takes the   *)
(* latch and runs the method up to the point where it has the frame in hand *)
(* (or returns early), the second runs the rest and releases the latch.     *)

NumThreads == 2
MaxCalls == 4

Threads == 1..NumThreads

\* waiting on latch_ with the mutex handed over regardless of its holder
LatchFreeAlways(latch) == TRUE

\* std::scoped_lock lock(latch_) gets past the mutex only when nobody holds it
LatchFree(latch) == latch = 0

\* the locals of a thread that is not inside a call
IdleLocals == [op |-> "none", page_id |-> INVALID_PAGE_ID, is_dirty |-> FALSE,
               frame_id |-> -1, hit |-> FALSE, snap |-> <<>>]

\* the frames the page table points at, and the frames on the free list
PageTableFrames(s) == {e[2] : e \in PageTableItems(s.page_table)}
FreeListFrames(s) == Range(s.free_list)

\* what the call gives when run in one piece on pool state s
AtomicCall(op, s, page_id, is_dirty) ==
    CASE op = "new"    -> LET r == NewPgImp(s) IN [bpm |-> r.bpm, ret |-> r.ret]
      [] op = "fetch"  -> LET r == FetchPgImp(s, page_id) IN [bpm |-> r.bpm, ret |-> r.ret]
      [] op = "unpin"  -> LET r == UnpinPgImp(s, page_id, is_dirty)
                          IN  [bpm |-> r.bpm, ret |-> r.ret]
      [] op = "delete" -> LET r == DeletePgImp(s, page_id) IN [bpm |-> r.bpm, ret |-> r.ret]

\* thread t got the latch and is inside the call, the frame in hand
Enter(t, op, page_id, is_dirty, frame_id, hit) ==
    /\ thr' = [thr EXCEPT !.latch = t, !.calls = @ + 1,
                          !.loc[t] = [op |-> op, page_id |-> page_id,
                                      is_dirty |-> is_dirty, frame_id |-> frame_id,
                                      hit |-> hit, snap |-> bpm]]
    /\ UNCHANGED last

\* thread t returns ret from a call that began on pool state snap and leaves
\* the pool as after; the scoped_lock's destructor unlocks latch_.  last keeps
\* the call, the pool it began on and the pool it left
Leave(t, op, page_id, is_dirty, snap, after, ret, early) ==
    /\ thr' = [thr EXCEPT !.latch = 0,
                          !.calls = IF early THEN @ + 1 ELSE @,
                          !.loc[t] = IdleLocals,
                          !.returned = @ \cup {t}]
    /\ last' = [op |-> op, page_id |-> page_id, is_dirty |-> is_dirty, ret |-> ret,
                thread |-> t, snap |-> snap, after |-> after]

CanCall(t) == thr.loc[t].op = "none" /\ thr.calls < MaxCalls /\ LatchFree(thr.latch)

MTInit ==
    /\ bpm = BufferPoolManagerInstance(PoolFrames, ReplacerK)
    /\ tree = [root_page_id |-> INVALID_PAGE_ID]
    /\ shadow = [bytes |-> <<>>, owed |-> {}]
    /\ last = [op |-> "none", page_id |-> INVALID_PAGE_ID, is_dirty |-> FALSE,
               ret |-> FALSE, thread |-> 0, snap |-> <<>>, after |-> <<>>]
    /\ thr = [latch |-> 0, calls |-> 0, loc |-> [t \in Threads |-> IdleLocals],
              returned |-> {}]

NewPageLock(t) ==
    /\ CanCall(t)
    /\ LET Taken(r) ==
           /\ bpm' = r.bpm
           /\ IF r.ok THEN Enter(t, "new", INVALID_PAGE_ID, FALSE, r.frame_id, FALSE)
              ELSE Leave(t, "new", INVALID_PAGE_ID, FALSE, bpm, bpm, FALSE, TRUE)
       IN  Taken(TakeFrame(bpm))
    /\ UNCHANGED <<tree, shadow>>

NewPageFinish(t) ==
    /\ thr.loc[t].op = "new"
    /\ LET l == thr.loc[t]
           Done(r) ==
               /\ bpm' = r.bpm
               /\ Leave(t, "new", l.page_id, l.is_dirty, l.snap, r.bpm, r.ret, FALSE)
       IN  Done(NewInstall(bpm, l.frame_id))
    /\ UNCHANGED <<tree, shadow>>

FetchPageLock(t, page_id) ==
    /\ CanCall(t)
    /\ page_id < bpm.next_page_id
    /\ LET Taken(r) ==
               /\ bpm' = r.bpm
               /\ IF r.ok THEN Enter(t, "fetch", page_id, FALSE, r.frame_id, FALSE)
                  ELSE Leave(t, "fetch", page_id, FALSE, bpm, bpm, FALSE, TRUE)
           Looked(hit) ==
               IF hit.found
               THEN bpm' = bpm /\ Enter(t, "fetch", page_id, FALSE, hit.value, TRUE)
               ELSE Taken(TakeFrame(bpm))
       IN  Looked(HTFind(bpm.page_table, page_id))
    /\ UNCHANGED <<tree, shadow>>

FetchPageFinish(t) ==
    /\ thr.loc[t].op = "fetch"
    /\ LET l == thr.loc[t]
           Done(r) ==
               /\ bpm' = r.bpm
               /\ Leave(t, "fetch", l.page_id, l.is_dirty, l.snap, r.bpm, r.ret, FALSE)
       IN  Done(IF l.hit THEN FetchHit(bpm, l.frame_id, l.page_id)
                ELSE FetchInstall(bpm, l.frame_id, l.page_id))
    /\ UNCHANGED <<tree, shadow>>

UnpinPageLock(t, page_id, is_dirty) ==
    /\ CanCall(t)
    /\ LET Looked(hit) ==
               IF hit.found /\ bpm.pages[hit.value].pin_count # 0
               THEN Enter(t, "unpin", page_id, is_dirty, hit.value, TRUE)
               ELSE Leave(t, "unpin", page_id, is_dirty, bpm, bpm, FALSE, TRUE)
       IN  Looked(HTFind(bpm.page_table, page_id))
    /\ UNCHANGED <<bpm, tree, shadow>>

UnpinPageFinish(t) ==
    /\ thr.loc[t].op = "unpin"
    /\ LET l == thr.loc[t]
           Done(r) ==
               /\ bpm' = r.bpm
               /\ Leave(t, "unpin", l.page_id, l.is_dirty, l.snap, r.bpm, r.ret, FALSE)
       IN  Done(UnpinApply(bpm, l.frame_id, l.is_dirty))
    /\ UNCHANGED <<tree, shadow>>

DeletePageLock(t, page_id) ==
    /\ CanCall(t)
    /\ LET Looked(hit) ==
               IF ~hit.found
               THEN Leave(t, "delete", page_id, FALSE, bpm, bpm, TRUE, TRUE)
               ELSE IF bpm.pages[hit.value].pin_count > 0
               THEN Leave(t, "delete", page_id, FALSE, bpm, bpm, FALSE, TRUE)
               ELSE Enter(t, "delete", page_id, FALSE, hit.value, TRUE)
       IN  Looked(HTFind(bpm.page_table, page_id))
    /\ UNCHANGED <<bpm, tree, shadow>>

DeletePageFinish(t) ==
    /\ thr.loc[t].op = "delete"
    /\ LET l == thr.loc[t]
           Done(r) ==
               /\ bpm' = r.bpm
               /\ Leave(t, "delete", l.page_id, l.is_dirty, l.snap, r.bpm, r.ret, FALSE)
       IN  Done(DeleteApply(bpm, l.frame_id, l.page_id))
    /\ UNCHANGED <<tree, shadow>>

MTNext ==
    \/ \E t \in Threads : NewPageLock(t)
    \/ \E t \in Threads : NewPageFinish(t)
    \/ \E t \in Threads, p \in PageIds : FetchPageLock(t, p)
    \/ \E t \in Threads : FetchPageFinish(t)
    \/ \E t \in Threads, p \in PageIds, d \in BOOLEAN : UnpinPageLock(t, p, d)
    \/ \E t \in Threads : UnpinPageFinish(t)
    \/ \E t \in Threads, p \in PageIds : DeletePageLock(t, p)
    \/ \E t \in Threads : DeletePageFinish(t)

SpecPoolMT == MTInit /\ [][MTNext]_vars

\* C9: under any interleaving of threads calling fetch_page, unpin_page, new_page
\* and delete_page, every call leaves the pool and returns what it would if run in
\* one piece on the pool as it was when the call took the latch, no second thread
\* is inside a call while one holds the latch, and no frame is at once on the
\* free list and the target of a page table entry
C9_AtomicCalls ==
    /\ last.op # "none" =>
          AtomicCall(last.op, last.snap, last.page_id, last.is_dirty)
             = [bpm |-> last.after, ret |-> last.ret]
    /\ \A t, u \in Threads :
          (thr.loc[t].op # "none" /\ thr.loc[u].op # "none") => t = u
    /\ \A t \in Threads : thr.loc[t].op # "none" => thr.latch = t
    /\ PageTableFrames(bpm) \cap FreeListFrames(bpm) = {}
    /\ Len(bpm.free_list) = Cardinality(FreeListFrames(bpm))

\* both threads have completed calls, the last a delete_page by thread 2 that put
\* a frame back on the free list while the page table still maps another page
C9_Witness ==
    /\ thr.returned = Threads
    /\ last.op = "delete" /\ last.ret /\ last.thread = 2
    /\ bpm.next_page_id = 2
    /\ Len(bpm.free_list) = 1
    /\ Cardinality(PageTableFrames(bpm)) = 1
    /\ thr.latch = 0

-----------------------------------------------------------------------------
(* B+ tree pages.  A node is the data of the frame that holds its page:    *)
(* the BPlusTreePage header fields and array_, a sequence of slots         *)
(* [first, second] (slot i of the code is element i + 1).  Slots at or     *)
(* past size keep whatever was last stored in them.                        *)

\* index_name_
IndexName == "index"

\* a slot of a page NewPgImp has just zeroed
ZeroSlot == [first |-> 0, second |-> 0]

\* array_ seen as at least len slots long
Padded(array, len) ==
    IF len <= Len(array) THEN array
    ELSE array \o [j \in 1..(len - Len(array)) |-> ZeroSlot]

\* BPlusTreeLeafPage::Init on a page NewPgImp has just zeroed
LeafInit(max_size) ==
    [kind |-> "node", page_type |-> "LEAF_PAGE", size |-> 0, max_size |-> max_size,
     parent_page_id |-> INVALID_PAGE_ID, page_id |-> 0,
     next_page_id |-> INVALID_PAGE_ID, array |-> <<>>]

\* BPlusTreeInternalPage::Init on a page NewPgImp has just zeroed
InternalInit(max_size) ==
    [kind |-> "node", page_type |-> "INTERNAL_PAGE", size |-> 0, max_size |-> max_size,
     parent_page_id |-> INVALID_PAGE_ID, page_id |-> 0, array |-> <<>>]

IsLeafPage(n) == n.page_type = "LEAF_PAGE"
IsRootPage(n) == n.parent_page_id = INVALID_PAGE_ID
GetMinSize(n) == (n.max_size + 1) \div 2

\* a slot never written reads as the zeroes NewPgImp left there
KeyAt(n, index) == Padded(n.array, index + 1)[index + 1].first
ValueAt(n, index) == Padded(n.array, index + 1)[index + 1].second
SetKeyAt(n, index, key) ==
    [n EXCEPT !.array = [Padded(n.array, index + 1) EXCEPT ![index + 1].first = key]]
SetValueAt(n, index, value) ==
    [n EXCEPT !.array = [Padded(n.array, index + 1) EXCEPT ![index + 1].second = value]]
SetSize(n, size) == [n EXCEPT !.size = size]
IncreaseSize(n, amount) == [n EXCEPT !.size = n.size + amount]

\* the test the internal page's KeyAt, ValueAt and SetValueAt make before they
\* touch array_[index]; they throw std::out_of_range when it fails
InRange(n, index) == index >= 0 /\ index < n.size

\* slots 0 .. size-1 of array_
Entries(n) == SubSeq(Padded(n.array, n.size), 1, n.size)

\* array_ with slots 0 .. Len(entries)-1 overwritten by entries
Overwrite(array, entries) ==
    [j \in 1..(IF Len(array) > Len(entries) THEN Len(array) ELSE Len(entries)) |->
        IF j <= Len(entries) THEN entries[j] ELSE array[j]]

\* the records of the header page; a zeroed page holds none
HeaderRecords(data) == IF data.kind = "header" THEN data.records ELSE <<>>
HeaderData(records) == [kind |-> "header", records |-> records]

\* HeaderPage::InsertRecord: refused when the name is already there
InsertRecord(records, name, root_id) ==
    IF name \in DOMAIN records THEN records
    ELSE [n \in DOMAIN records \cup {name} |->
             IF n = name THEN root_id ELSE records[n]]

\* HeaderPage::UpdateRecord: refused when the name is not there
UpdateRecord(records, name, root_id) ==
    IF name \notin DOMAIN records THEN records
    ELSE [records EXCEPT ![name] = root_id]

-----------------------------------------------------------------------------
(* B+ tree.  A call runs on a context c: the pool (bpm), the BPlusTree      *)
(* object's fields (tree), the exception in flight (exc, "none" when there  *)
(* is none), and what the function in hand returns: a bool (ret), a Page*   *)
(* or node pointer (page: the frame index, or nullptr) and GetValue's       *)
(* result vector (result).  A statement applied to a context that carries   *)
(* an exception leaves it as it is: the rest of the call is skipped.        *)

BPlusTree(leaf_max_size, internal_max_size) ==
    [root_page_id |-> INVALID_PAGE_ID,
     leaf_max_size |-> leaf_max_size,
     internal_max_size |-> internal_max_size]

Ctx(b, t) == [bpm |-> b, tree |-> t, exc |-> "none", ret |-> FALSE,
              page |-> nullptr, result |-> <<>>]

Ok(c) == c.exc = "none"
Throw(c, what) == IF Ok(c) THEN [c EXCEPT !.exc = what] ELSE c
Return(c, value) == IF Ok(c) THEN [c EXCEPT !.ret = value] ELSE c

\* the node a pinned Page* gives access to, and a store through it
Node(c, f) == c.bpm.pages[f].data
Put(c, f, n) == IF Ok(c) THEN [c EXCEPT !.bpm.pages[f].data = n] ELSE c

\* Page::GetPageId of the frame
GetPageId(c, f) == c.bpm.pages[f].page_id

\* buffer_pool_manager_->UnpinPage and ->DeletePage, their results dropped
Unpin(c, page_id, is_dirty) ==
    IF Ok(c) THEN [c EXCEPT !.bpm = UnpinPgImp(c.bpm, page_id, is_dirty).bpm] ELSE c
Delete(c, page_id) ==
    IF Ok(c) THEN [c EXCEPT !.bpm = DeletePgImp(c.bpm, page_id).bpm] ELSE c

\* c after a pool call r, holding the Page* it returned
After(c, r) == [c EXCEPT !.bpm = r.bpm, !.page = r.page]

IsEmpty(t) == t.root_page_id = INVALID_PAGE_ID

\* UpdateRootPageId; the FetchPage result is used unchecked
UpdateRootPageId(c, insert_record) ==
    LET Got(d) ==
            IF d.page = nullptr THEN Throw(d, "segv")
            ELSE Unpin(Put(d, d.page,
                           HeaderData(
                              IF insert_record # 0
                              THEN InsertRecord(HeaderRecords(Node(d, d.page)),
                                                IndexName, d.tree.root_page_id)
                              ELSE UpdateRecord(HeaderRecords(Node(d, d.page)),
                                                IndexName, d.tree.root_page_id))),
                       HEADER_PAGE_ID, TRUE)
    IN  IF ~Ok(c) THEN c ELSE Got(After(c, FetchPgImp(c.bpm, HEADER_PAGE_ID)))

\* the index FindLeafPage's inner loop stops at
ChildIndex(node, key) ==
    LET stops == {i \in 1..(node.size - 1) : KeyAt(node, i) > key}
    IN  IF stops = {} THEN (IF node.size > 1 THEN node.size ELSE 1)
        ELSE CHOOSE i \in stops : \A j \in stops : i <= j

\* Descend without the UnpinPage of the page left behind
RECURSIVE DescendKeepPin(_, _, _)
DescendKeepPin(c, key, leftMost) ==
    LET node == Node(c, c.page)
        Down(index) ==
            IF ~InRange(node, index) THEN Throw(c, "out_of_range")
            ELSE DescendKeepPin(After(c, FetchPgImp(c.bpm, ValueAt(node, index))),
                                key, leftMost)
    IN  IF c.page = nullptr \/ IsLeafPage(node) THEN c
        ELSE Down(IF leftMost THEN 0 ELSE ChildIndex(node, key) - 1)

\* FindLeafPage's loop, page being the pinned Page* in hand
RECURSIVE Descend(_, _, _)
Descend(c, key, leftMost) ==
    LET node == Node(c, c.page)
        Down(index) ==
            IF ~InRange(node, index) THEN Throw(c, "out_of_range")
            ELSE Descend(After(c, FetchPgImp(UnpinPgImp(c.bpm, GetPageId(c, c.page),
                                                        FALSE).bpm,
                                             ValueAt(node, index))),
                         key, leftMost)
    IN  IF c.page = nullptr \/ IsLeafPage(node) THEN c
        ELSE Down(IF leftMost THEN 0 ELSE ChildIndex(node, key) - 1)

\* FindLeafPage: c.page is the leaf, pinned, or nullptr
FindLeafPage(c, key, leftMost) ==
    IF ~Ok(c) THEN c
    ELSE IF IsEmpty(c.tree) THEN [c EXCEPT !.page = nullptr]
    ELSE Descend(After(c, FetchPgImp(c.bpm, c.tree.root_page_id)), key, leftMost)

\* the least index i < size with KeyAt(i) = key, or -1
IndexOfKey(node, key) ==
    LET hits == {i \in 0..(node.size - 1) : KeyAt(node, i) = key}
    IN  IF hits = {} THEN -1 ELSE CHOOSE i \in hits : \A j \in hits : i <= j

GetValue(c, key) ==
    LET Found(d) ==
            IF ~Ok(d) \/ d.page = nullptr THEN Return(d, FALSE)
            ELSE LET leaf_node == Node(d, d.page)
                     i == IndexOfKey(leaf_node, key)
                 IN  [Unpin(d, GetPageId(d, d.page), FALSE) EXCEPT
                        !.ret = i # -1,
                        !.result = IF i = -1 THEN <<>> ELSE <<ValueAt(leaf_node, i)>>]
    IN  IF IsEmpty(c.tree) THEN Return(c, FALSE)
        ELSE Found(FindLeafPage(c, key, FALSE))

StartNewTree(c, key, value) ==
    LET Made(d) ==
            IF d.page = nullptr THEN Throw(d, "OUT_OF_MEMORY")
            ELSE Unpin(UpdateRootPageId(
                          [Put(d, d.page,
                               SetSize(SetValueAt(SetKeyAt(
                                  [LeafInit(d.tree.leaf_max_size) EXCEPT
                                     !.page_id = GetPageId(d, d.page)],
                                  0, key), 0, value), 1))
                             EXCEPT !.tree.root_page_id = GetPageId(d, d.page)],
                          1),
                       GetPageId(d, d.page), TRUE)
    IN  IF ~Ok(c) THEN c ELSE Made(After(c, NewPgImp(c.bpm)))

\* the least index i < size with ValueAt(i) = page_id, or -1
IndexOfChild(node, page_id) ==
    LET hits == {i \in 0..(node.size - 1) : ValueAt(node, i) = page_id}
    IN  IF hits = {} THEN -1 ELSE CHOOSE i \in hits : \A j \in hits : i <= j

\* InsertPos with the search for the first larger key left out
InsertPosAtEnd(node, key) == node.size

\* the position InsertIntoLeaf inserts at: the first slot with a larger key
InsertPos(node, key) ==
    LET later == {i \in 0..(node.size - 1) : key < KeyAt(node, i)}
    IN  IF later = {} THEN node.size ELSE CHOOSE i \in later : \A j \in later : i <= j

\* slots index .. size-1 moved up by one and (key, value) stored at index,
\* then IncreaseSize(1): what the shifting loops of InsertIntoLeaf and
\* InsertIntoParent leave
InsertSlot(n, index, key, value) ==
    [n EXCEPT !.array = Overwrite(n.array,
                                  InsertAt(Entries(n), index + 1,
                                           [first |-> key, second |-> value])),
              !.size = n.size + 1]

\* slots index+1 .. size-1 moved down by one, then IncreaseSize(-1): what the
\* loops of DeleteFromLeaf and DeleteFromInternal leave (the last slot keeps
\* its old content)
RemoveSlot(n, index) ==
    [n EXCEPT !.array = Overwrite(n.array, RemoveAt(Entries(n), index + 1)),
              !.size = n.size - 1]

\* Split(LeafPage *node) without node->SetNextPageId(new_page_id)
SplitLeafKeepNext(c, node) ==
    LET Made(d) ==
            IF d.page = nullptr THEN Throw(d, "OUT_OF_MEMORY")
            ELSE Put(d, d.page,
                     [LeafInit(d.tree.leaf_max_size) EXCEPT
                        !.page_id = GetPageId(d, d.page),
                        !.parent_page_id = Node(d, node).parent_page_id,
                        !.next_page_id = Node(d, node).next_page_id])
    IN  IF ~Ok(c) THEN c ELSE Made(After(c, NewPgImp(c.bpm)))

\* Split(LeafPage *node): c.page is the new leaf, pinned
SplitLeaf(c, node) ==
    LET Made(d) ==
            IF d.page = nullptr THEN Throw(d, "OUT_OF_MEMORY")
            ELSE Put(Put(d, d.page,
                         [LeafInit(d.tree.leaf_max_size) EXCEPT
                            !.page_id = GetPageId(d, d.page),
                            !.parent_page_id = Node(d, node).parent_page_id,
                            !.next_page_id = Node(d, node).next_page_id]),
                     node, [Node(d, node) EXCEPT !.next_page_id = GetPageId(d, d.page)])
    IN  IF ~Ok(c) THEN c ELSE Made(After(c, NewPgImp(c.bpm)))

\* Split(InternalPage *node): c.page is the new internal node, pinned
SplitInternal(c, node) ==
    LET Made(d) ==
            IF d.page = nullptr THEN Throw(d, "OUT_OF_MEMORY")
            ELSE Put(d, d.page,
                     [InternalInit(d.tree.internal_max_size) EXCEPT
                        !.page_id = GetPageId(d, d.page),
                        !.parent_page_id = Node(d, node).parent_page_id])
    IN  IF ~Ok(c) THEN c ELSE Made(After(c, NewPgImp(c.bpm)))

\* InsertIntoParent when old_node is the root: a new root over the two nodes
NewRoot(c, old_node, key, new_node) ==
    LET Made(d) ==
            IF d.page = nullptr THEN Throw(d, "OUT_OF_MEMORY")
            ELSE LET new_root_id == GetPageId(d, d.page)
                     new_root ==
                        SetValueAt(SetKeyAt(SetValueAt(
                           SetSize([InternalInit(d.tree.internal_max_size) EXCEPT
                                      !.page_id = new_root_id], 2),
                           0, Node(d, old_node).page_id),
                           1, key),
                           1, Node(d, new_node).page_id)
                 IN  Unpin(UpdateRootPageId(
                              [Put(Put(Put(d, d.page, new_root),
                                       old_node, [Node(d, old_node) EXCEPT
                                                    !.parent_page_id = new_root_id]),
                                   new_node, [Node(d, new_node) EXCEPT
                                                !.parent_page_id = new_root_id])
                                 EXCEPT !.tree.root_page_id = new_root_id],
                              0),
                           new_root_id, TRUE)
    IN  Made(After(c, NewPgImp(c.bpm)))

\* the loop that fills slots 1 .. of the new internal node from temp (slot i
\* of temp going to slot k), each SetValueAt checking k against the size
RECURSIVE MoveUpper(_, _, _, _, _)
MoveUpper(c, node, temp, i, k) ==
    IF ~Ok(c) \/ i > Len(temp) - 1 THEN c
    ELSE IF ~InRange(Node(c, node), k)
    THEN Throw(Put(c, node, SetKeyAt(Node(c, node), k, temp[i + 1].first)),
               "out_of_range")
    ELSE MoveUpper(Put(c, node,
                       SetValueAt(SetKeyAt(Node(c, node), k, temp[i + 1].first),
                                  k, temp[i + 1].second)),
                   node, temp, i + 1, k + 1)

\* the loop that rewrites the parent pointer of children i .. size-1 of node;
\* the FetchPage result is used unchecked
RECURSIVE Reparent(_, _, _)
Reparent(c, node, i) ==
    LET Got(d) ==
            IF d.page = nullptr THEN Throw(d, "segv")
            ELSE Reparent(Unpin(Put(d, d.page,
                                    [Node(d, d.page) EXCEPT
                                       !.parent_page_id = Node(d, node).page_id]),
                                ValueAt(Node(d, node), i), TRUE),
                          node, i + 1)
    IN  IF ~Ok(c) \/ i >= Node(c, node).size THEN c
        ELSE Got(After(c, FetchPgImp(c.bpm, ValueAt(Node(c, node), i))))

RECURSIVE InsertIntoParent(_, _, _, _)

\* InsertIntoParent with the parent full: split it.  temp is the parent's
\* entries with the new one inserted.  SetValueAt(0, ..) on the new internal
\* node, whose size Init left at 0, throws.  push_up_key is read from
\* temp_keys after delete[]; the model takes the value that was there.
SplitParent(c, parent, parent_id, temp) ==
    LET parent_size == Len(temp) - 1
        split_index == (parent_size + 1) \div 2
        Rest(f, new_internal) ==
            Unpin(Unpin(InsertIntoParent(f, parent, temp[split_index + 1].first,
                                         new_internal),
                        parent_id, TRUE),
                  Node(f, new_internal).page_id, TRUE)
        Moved(f, new_internal) ==
            IF ~Ok(f) THEN f
            ELSE Rest(Reparent(Put(f, new_internal,
                                   SetSize(Node(f, new_internal),
                                           parent_size + 1 - split_index)),
                               new_internal, 0),
                      new_internal)
        Halved(e) ==
            IF ~InRange(Node(e, e.page), 0) THEN Throw(e, "out_of_range")
            ELSE Moved(MoveUpper(Put(e, e.page,
                                     SetValueAt(Node(e, e.page), 0,
                                                temp[split_index + 1].second)),
                                 e.page, temp, split_index + 1, 1),
                       e.page)
        Made(d) ==
            IF ~Ok(d) THEN d
            ELSE Halved(Put(d, parent,
                            SetSize([Node(d, parent) EXCEPT
                                       !.array = Overwrite(@, SubSeq(temp, 1, split_index))],
                                    split_index)))
    IN  Made(SplitInternal(c, parent))

\* InsertIntoParent with the parent page fetched
IntoParent(c, parent, old_node, key, new_node) ==
    LET parent_node == Node(c, parent)
        parent_id == Node(c, old_node).parent_page_id
        found == IndexOfChild(parent_node, Node(c, old_node).page_id)
        insert_index == IF found = -1 THEN parent_node.size ELSE found + 1
    IN  IF parent_node.size < parent_node.max_size
        THEN Unpin(Put(Put(c, parent,
                           InsertSlot(parent_node, insert_index, key,
                                      Node(c, new_node).page_id)),
                       new_node, [Node(c, new_node) EXCEPT !.parent_page_id = parent_id]),
                   parent_id, TRUE)
        ELSE SplitParent(c, parent, parent_id,
                         InsertAt(Entries(parent_node), insert_index + 1,
                                  [first |-> key, second |-> Node(c, new_node).page_id]))

InsertIntoParent(c, old_node, key, new_node) ==
    LET Got(d) ==
            IF d.page = nullptr THEN Throw(d, "INVALID")
            ELSE IntoParent(d, d.page, old_node, key, new_node)
    IN  IF ~Ok(c) THEN c
        ELSE IF IsRootPage(Node(c, old_node)) THEN NewRoot(c, old_node, key, new_node)
        ELSE Got(After(c, FetchPgImp(c.bpm, Node(c, old_node).parent_page_id)))

\* SplitAndInsert keeping the first new_size / 2 entries in the old leaf
SplitAndInsertLow(c, leaf_page, temp) ==
    LET new_size == Len(temp)
        split_index == new_size \div 2
        Halved(e) ==
            IF ~Ok(e) THEN e
            ELSE Return(
                   Unpin(Unpin(
                      InsertIntoParent(
                         Put(Put(e, leaf_page,
                                 SetSize([Node(e, leaf_page) EXCEPT
                                            !.array = Overwrite(@, SubSeq(temp, 1, split_index))],
                                         split_index)),
                             e.page,
                             SetSize([Node(e, e.page) EXCEPT
                                        !.array = Overwrite(@, SubSeq(temp, split_index + 1,
                                                                      new_size))],
                                     new_size - split_index)),
                         leaf_page, temp[split_index + 1].first, e.page),
                      GetPageId(e, leaf_page), TRUE),
                      Node(e, e.page).page_id, TRUE),
                   TRUE)
    IN  Halved(SplitLeaf(c, leaf_page))

\* InsertIntoLeaf with the leaf full: split it.  temp is the leaf's entries
\* with the new one inserted
SplitAndInsert(c, leaf_page, temp) ==
    LET new_size == Len(temp)
        split_index == (new_size + 1) \div 2
        Halved(e) ==
            IF ~Ok(e) THEN e
            ELSE Return(
                   Unpin(Unpin(
                      InsertIntoParent(
                         Put(Put(e, leaf_page,
                                 SetSize([Node(e, leaf_page) EXCEPT
                                            !.array = Overwrite(@, SubSeq(temp, 1, split_index))],
                                         split_index)),
                             e.page,
                             SetSize([Node(e, e.page) EXCEPT
                                        !.array = Overwrite(@, SubSeq(temp, split_index + 1,
                                                                      new_size))],
                                     new_size - split_index)),
                         leaf_page, temp[split_index + 1].first, e.page),
                      GetPageId(e, leaf_page), TRUE),
                      Node(e, e.page).page_id, TRUE),
                   TRUE)
    IN  Halved(SplitLeaf(c, leaf_page))

\* InsertIntoLeaf returning on a key already present without UnpinPage
InsertIntoLeafKeepPin(c, key, value) ==
    LET AtLeaf(d) ==
            IF ~Ok(d) \/ d.page = nullptr THEN Return(d, FALSE)
            ELSE LET leaf_node == Node(d, d.page)
                 IN  IF IndexOfKey(leaf_node, key) # -1
                     THEN Return(d, FALSE)
                     ELSE IF leaf_node.size < leaf_node.max_size
                     THEN Return(Unpin(Put(d, d.page,
                                           InsertSlot(leaf_node, InsertPos(leaf_node, key),
                                                      key, value)),
                                       GetPageId(d, d.page), TRUE),
                                 TRUE)
                     ELSE SplitAndInsert(d, d.page,
                                         InsertAt(Entries(leaf_node),
                                                  InsertPos(leaf_node, key) + 1,
                                                  [first |-> key, second |-> value]))
    IN  AtLeaf(FindLeafPage(c, key, FALSE))

InsertIntoLeaf(c, key, value) ==
    LET AtLeaf(d) ==
            IF ~Ok(d) \/ d.page = nullptr THEN Return(d, FALSE)
            ELSE LET leaf_node == Node(d, d.page)
                 IN  IF IndexOfKey(leaf_node, key) # -1
                     THEN Return(Unpin(d, GetPageId(d, d.page), FALSE), FALSE)
                     ELSE IF leaf_node.size < leaf_node.max_size
                     THEN Return(Unpin(Put(d, d.page,
                                           InsertSlot(leaf_node, InsertPos(leaf_node, key),
                                                      key, value)),
                                       GetPageId(d, d.page), TRUE),
                                 TRUE)
                     ELSE SplitAndInsert(d, d.page,
                                         InsertAt(Entries(leaf_node),
                                                  InsertPos(leaf_node, key) + 1,
                                                  [first |-> key, second |-> value]))
    IN  AtLeaf(FindLeafPage(c, key, FALSE))

Insert(c, key, value) ==
    IF IsEmpty(c.tree) THEN Return(StartNewTree(c, key, value), TRUE)
    ELSE InsertIntoLeaf(c, key, value)

\* the parent pointer of the child page in c.page rewritten to that of node,
\* the child unpinned dirty; the FetchPage result is used unchecked
Adopt(c, node, child_page_id) ==
    IF ~Ok(c) THEN c
    ELSE IF c.page = nullptr THEN Throw(c, "segv")
    ELSE Unpin(Put(c, c.page, [Node(c, c.page) EXCEPT
                                 !.parent_page_id = Node(c, node).page_id]),
               child_page_id, TRUE)

\* Redistribute, leaf branch, without parent->SetKeyAt
RedistributeLeafKeepSeparator(c, neighbor, node, parent, index, from_left) ==
    LET leaf_node == Node(c, node)
        neighbor_leaf == Node(c, neighbor)
        neighbor_size == neighbor_leaf.size
    IN  IF from_left
        THEN Put(Put(c, node,
                     InsertSlot(leaf_node, 0,
                                KeyAt(neighbor_leaf, neighbor_size - 1),
                                ValueAt(neighbor_leaf, neighbor_size - 1))),
                 neighbor, IncreaseSize(neighbor_leaf, -1))
        ELSE Put(Put(c, node,
                     InsertSlot(leaf_node, leaf_node.size,
                                KeyAt(neighbor_leaf, 0), ValueAt(neighbor_leaf, 0))),
                 neighbor, RemoveSlot(neighbor_leaf, 0))

\* Redistribute, leaf branch
RedistributeLeaf(c, neighbor, node, parent, index, from_left) ==
    LET leaf_node == Node(c, node)
        neighbor_leaf == Node(c, neighbor)
        neighbor_size == neighbor_leaf.size
    IN  IF from_left
        THEN Put(Put(Put(c, node,
                         InsertSlot(leaf_node, 0,
                                    KeyAt(neighbor_leaf, neighbor_size - 1),
                                    ValueAt(neighbor_leaf, neighbor_size - 1))),
                     neighbor, IncreaseSize(neighbor_leaf, -1)),
                 parent, SetKeyAt(Node(c, parent), index,
                                  KeyAt(neighbor_leaf, neighbor_size - 1)))
        ELSE Put(Put(Put(c, node,
                         InsertSlot(leaf_node, leaf_node.size,
                                    KeyAt(neighbor_leaf, 0), ValueAt(neighbor_leaf, 0))),
                     neighbor, RemoveSlot(neighbor_leaf, 0)),
                 parent, SetKeyAt(Node(c, parent), index,
                                  KeyAt(RemoveSlot(neighbor_leaf, 0), 0)))

\* Redistribute, internal branch, from the left sibling
RedistributeInternalLeft(c, neighbor, node, parent, index) ==
    LET internal_node == Node(c, node)
        neighbor_internal == Node(c, neighbor)
        neighbor_size == neighbor_internal.size
        shifted == [internal_node EXCEPT
                      !.array = Overwrite(@, IF internal_node.size = 0 THEN <<>>
                                             ELSE <<@[1]>> \o Entries(internal_node)),
                      !.size = internal_node.size + 1]
        Raised(d) ==
            IF ~Ok(d) THEN d
            ELSE Put(Put(d, parent,
                         SetKeyAt(Node(d, parent), index,
                                  KeyAt(neighbor_internal, neighbor_size - 1))),
                     neighbor, IncreaseSize(Node(d, neighbor), -1))
        Lowered(d) ==
            Raised(Adopt(After(d, FetchPgImp(d.bpm, ValueAt(Node(d, node), 0))),
                         node, ValueAt(Node(d, node), 0)))
    IN  IF ~InRange(Node(c, parent), index)
        THEN Throw(Put(c, node, shifted), "out_of_range")
        ELSE IF ~InRange(neighbor_internal, neighbor_size - 1)
        THEN Throw(Put(c, node, SetKeyAt(shifted, 1, KeyAt(Node(c, parent), index))),
                   "out_of_range")
        ELSE Lowered(Put(c, node,
                         SetValueAt(SetKeyAt(shifted, 1, KeyAt(Node(c, parent), index)),
                                    0, ValueAt(neighbor_internal, neighbor_size - 1))))

\* Redistribute, internal branch, from the right sibling: SetValueAt(node_size,
\* ..) is called before IncreaseSize and throws
RedistributeInternalRight(c, neighbor, node, parent, index) ==
    LET internal_node == Node(c, node)
        neighbor_internal == Node(c, neighbor)
        node_size == internal_node.size
        Raised(d) ==
            IF ~Ok(d) THEN d
            ELSE IF ~InRange(Node(d, neighbor), 1) THEN Throw(d, "out_of_range")
            ELSE Put(Put(d, parent,
                         SetKeyAt(Node(d, parent), index, KeyAt(Node(d, neighbor), 1))),
                     neighbor,
                     [Node(d, neighbor) EXCEPT
                        !.array = Overwrite(@, <<[first |-> @[1].first,
                                                  second |-> @[2].second]>>
                                               \o SubSeq(@, 3, Node(d, neighbor).size)),
                        !.size = @ - 1])
    IN  IF ~InRange(Node(c, parent), index) THEN Throw(c, "out_of_range")
        ELSE IF ~InRange(neighbor_internal, 0) \/ ~InRange(internal_node, node_size)
        THEN Throw(Put(c, node, SetKeyAt(internal_node, node_size,
                                         KeyAt(Node(c, parent), index))),
                   "out_of_range")
        ELSE Raised(Adopt(After(Put(c, node,
                                    IncreaseSize(
                                       SetValueAt(SetKeyAt(internal_node, node_size,
                                                           KeyAt(Node(c, parent), index)),
                                                  node_size, ValueAt(neighbor_internal, 0)),
                                       1)),
                                FetchPgImp(c.bpm, ValueAt(neighbor_internal, 0))),
                          node, ValueAt(neighbor_internal, 0)))

Redistribute(c, neighbor, node, parent, index, from_left) ==
    IF ~Ok(c) THEN c
    ELSE IF IsLeafPage(Node(c, node))
    THEN RedistributeLeaf(c, neighbor, node, parent, index, from_left)
    ELSE IF from_left THEN RedistributeInternalLeft(c, neighbor, node, parent, index)
    ELSE RedistributeInternalRight(c, neighbor, node, parent, index)

\* Coalesce, leaf branch: the right leaf's entries appended to the left leaf
CoalesceLeaf(c, left_node, right_node) ==
    LET left_leaf == Node(c, left_node)
        right_leaf == Node(c, right_node)
    IN  Delete(Put(c, left_node,
                   [left_leaf EXCEPT
                      !.array = Overwrite(@, Entries(left_leaf) \o Entries(right_leaf)),
                      !.size = left_leaf.size + right_leaf.size,
                      !.next_page_id = right_leaf.next_page_id]),
               right_leaf.page_id)

\* the loop of Coalesce's internal branch over slots i .. right_size-1
RECURSIVE CoalesceMove(_, _, _, _, _)
CoalesceMove(c, left_node, right_node, left_size, i) ==
    IF ~Ok(c) \/ i >= Node(c, right_node).size THEN c
    ELSE IF ~InRange(Node(c, left_node), left_size + i)
    THEN Throw(Put(c, left_node,
                   SetKeyAt(Node(c, left_node), left_size + i,
                            KeyAt(Node(c, right_node), i))),
               "out_of_range")
    ELSE CoalesceMove(
            Adopt(After(Put(c, left_node,
                            SetValueAt(SetKeyAt(Node(c, left_node), left_size + i,
                                                KeyAt(Node(c, right_node), i)),
                                       left_size + i, ValueAt(Node(c, right_node), i))),
                        FetchPgImp(c.bpm, ValueAt(Node(c, right_node), i))),
                  left_node, ValueAt(Node(c, right_node), i)),
            left_node, right_node, left_size, i + 1)

\* Coalesce, internal branch: SetValueAt(left_size, ..) is called before
\* IncreaseSize and throws
CoalesceInternal(c, left_node, right_node, parent, index) ==
    LET left_internal == Node(c, left_node)
        right_internal == Node(c, right_node)
        left_size == left_internal.size
        Merged(d) ==
            IF ~Ok(d) THEN d
            ELSE Delete(Put(d, left_node,
                            IncreaseSize(Node(d, left_node), right_internal.size - 1)),
                        Node(d, right_node).page_id)
    IN  IF ~InRange(Node(c, parent), index) THEN Throw(c, "out_of_range")
        ELSE IF ~InRange(right_internal, 0) \/ ~InRange(left_internal, left_size)
        THEN Throw(Put(c, left_node, SetKeyAt(left_internal, left_size,
                                              KeyAt(Node(c, parent), index))),
                   "out_of_range")
        ELSE Merged(CoalesceMove(
                       Adopt(After(Put(c, left_node,
                                       IncreaseSize(
                                          SetValueAt(SetKeyAt(left_internal, left_size,
                                                              KeyAt(Node(c, parent), index)),
                                                     left_size, ValueAt(right_internal, 0)),
                                          1)),
                                   FetchPgImp(c.bpm, ValueAt(right_internal, 0))),
                             left_node, ValueAt(right_internal, 0)),
                       left_node, right_node, left_size, 1))

DeleteFromInternal(c, node, index) ==
    IF ~Ok(c) THEN c
    ELSE Put(c, node,
             IF index < Node(c, node).size THEN RemoveSlot(Node(c, node), index)
             ELSE IncreaseSize(Node(c, node), -1))

\* AdjustRoot without child_node->SetParentPageId(INVALID_PAGE_ID)
AdjustRootKeepParent(c, node) ==
    LET n == Node(c, node)
        Got(d) ==
            IF d.page = nullptr THEN Throw(d, "segv")
            ELSE Return(
                   Delete(Unpin(UpdateRootPageId(
                                   [d EXCEPT !.tree.root_page_id = ValueAt(n, 0)],
                                   0),
                                ValueAt(n, 0), TRUE),
                          n.page_id),
                   TRUE)
    IN  IF ~Ok(c) THEN c
        ELSE IF ~IsLeafPage(n) /\ n.size = 1
        THEN Got(After(c, FetchPgImp(c.bpm, ValueAt(n, 0))))
        ELSE IF IsLeafPage(n) /\ n.size = 0
        THEN Return(Delete(UpdateRootPageId(
                              [c EXCEPT !.tree.root_page_id = INVALID_PAGE_ID], 0),
                           n.page_id),
                    TRUE)
        ELSE Return(c, FALSE)

\* AdjustRoot; DeletePage is called on the old root while the caller still
\* has it pinned
AdjustRoot(c, node) ==
    LET n == Node(c, node)
        Got(d) ==
            IF d.page = nullptr THEN Throw(d, "segv")
            ELSE Return(
                   Delete(Unpin(UpdateRootPageId(
                                   [Put(d, d.page, [Node(d, d.page) EXCEPT
                                                      !.parent_page_id = INVALID_PAGE_ID])
                                      EXCEPT !.tree.root_page_id = ValueAt(n, 0)],
                                   0),
                                ValueAt(n, 0), TRUE),
                          n.page_id),
                   TRUE)
    IN  IF ~Ok(c) THEN c
        ELSE IF ~IsLeafPage(n) /\ n.size = 1
        THEN Got(After(c, FetchPgImp(c.bpm, ValueAt(n, 0))))
        ELSE IF IsLeafPage(n) /\ n.size = 0
        THEN Return(Delete(UpdateRootPageId(
                              [c EXCEPT !.tree.root_page_id = INVALID_PAGE_ID], 0),
                           n.page_id),
                    TRUE)
        ELSE Return(c, FALSE)

RECURSIVE CoalesceOrRedistribute(_, _)

\* Coalesce: c.ret is what CoalesceOrRedistribute(parent) returns
Coalesce(c, left_node, right_node, parent, index) ==
    IF ~Ok(c) THEN c
    ELSE CoalesceOrRedistribute(
            DeleteFromInternal(
               IF IsLeafPage(Node(c, left_node))
               THEN CoalesceLeaf(c, left_node, right_node)
               ELSE CoalesceInternal(c, left_node, right_node, parent, index),
               parent, index),
            parent)

\* CoalesceOrRedistribute: c.ret is should_delete.  The FetchPage results are
\* used unchecked
CoalesceOrRedistribute(c, node) ==
    LET n == Node(c, node)
        WithSibling(e, parent, sibling_page_id, index, left) ==
            IF e.page = nullptr THEN Throw(e, "segv")
            ELSE Unpin(IF Node(e, e.page).size > GetMinSize(Node(e, e.page))
                       THEN Return(Redistribute(e, e.page, node, parent, index, left),
                                   FALSE)
                       ELSE IF left THEN Coalesce(e, e.page, node, parent, index)
                       ELSE Coalesce(e, node, e.page, parent, index),
                       sibling_page_id, TRUE)
        Fin(e, parent) == IF Ok(e) THEN Unpin(e, Node(e, parent).page_id, TRUE) ELSE e
        WithParent(d) ==
            IF d.page = nullptr THEN Throw(d, "segv")
            ELSE LET parent_node == Node(d, d.page)
                     found == IndexOfChild(parent_node, n.page_id)
                     index == IF found = -1 THEN 0 ELSE found
                 IN  Fin(IF index > 0
                         THEN WithSibling(
                                 After(d, FetchPgImp(d.bpm, ValueAt(parent_node, index - 1))),
                                 d.page, ValueAt(parent_node, index - 1), index, TRUE)
                         ELSE IF index < parent_node.size - 1
                         THEN WithSibling(
                                 After(d, FetchPgImp(d.bpm, ValueAt(parent_node, index + 1))),
                                 d.page, ValueAt(parent_node, index + 1), index + 1, FALSE)
                         ELSE Return(d, FALSE),
                         d.page)
    IN  IF ~Ok(c) THEN c
        ELSE IF IsRootPage(n) THEN AdjustRoot(c, node)
        ELSE IF n.size >= GetMinSize(n) THEN Return(c, FALSE)
        ELSE WithParent(After(c, FetchPgImp(c.bpm, n.parent_page_id)))

\* DeleteFromLeaf is IndexOfKey and RemoveSlot
Remove(c, key) ==
    LET Fin(e, leaf_page, deleted) ==
            IF Ok(e) THEN Unpin(e, GetPageId(e, leaf_page), deleted) ELSE e
        AtLeaf(d) ==
            IF ~Ok(d) \/ d.page = nullptr THEN d
            ELSE IF IndexOfKey(Node(d, d.page), key) = -1 THEN Fin(d, d.page, FALSE)
            ELSE Fin(CoalesceOrRedistribute(
                        Put(d, d.page,
                            RemoveSlot(Node(d, d.page), IndexOfKey(Node(d, d.page), key))),
                        d.page),
                     d.page, TRUE)
    IN  IF IsEmpty(c.tree) THEN c ELSE AtLeaf(FindLeafPage(c, key, FALSE))

-----------------------------------------------------------------------------
(* The B+ tree driven by a client: Insert, Remove and GetValue calls on a   *)
(* tree of leaf_max_size LeafMax and internal_max_size InternalMax over a   *)
(* pool of TreeFrames frames whose first page, the header page, the client  *)
(* allocated before it built the tree and keeps pinned.  shadow is what the *)
(* calls so far ought to have stored: map[k] is the value of the last       *)
(* Insert of k that returned true, while no Remove of k has returned since; *)
(* a call that an exception left puts its key in unsure.  The n-th Insert   *)
(* of a key carries value n.  The client makes shadow.budget calls, and     *)
(* shadow.thrown tells whether one of them was left by an exception.        *)

TreeFrames == 8
LeafMax == 2
InternalMax == 2
MaxOps == 6
MaxGets == 1

Keys == 1..MaxKey

NoTreeCall == [op |-> "none", key |-> 0, value |-> 0, ret |-> FALSE,
               exc |-> "none", result |-> <<>>]

TreeInit ==
    /\ bpm = NewPgImp(BufferPoolManagerInstance(TreeFrames, ReplacerK)).bpm
    /\ tree = BPlusTree(LeafMax, InternalMax)
    /\ shadow = [map |-> <<>>, unsure |-> {}, calls |-> [k \in Keys |-> 0],
                 ops |-> 0, gets |-> 0, thrown |-> FALSE,
                 budget |-> MaxOps]
    /\ last = NoTreeCall
    /\ thr = [latch |-> 0]

\* a null Page* dereferenced ends the process
Running == last.exc # "segv"

\* map without key k
Without(map, k) == [j \in DOMAIN map \ {k} |-> map[j]]

TreeInsert(key) ==
    LET Done(c, value) ==
            /\ bpm' = c.bpm
            /\ tree' = c.tree
            /\ last' = [op |-> "insert", key |-> key, value |-> value, ret |-> c.ret,
                        exc |-> c.exc, result |-> <<>>]
            /\ shadow' = [shadow EXCEPT
                            !.ops = @ + 1,
                            !.thrown = @ \/ ~Ok(c),
                            !.calls[key] = value,
                            !.unsure = IF Ok(c) THEN @ \ {key} ELSE @ \cup {key},
                            !.map = IF Ok(c) /\ c.ret
                                    THEN [j \in DOMAIN @ \cup {key} |->
                                             IF j = key THEN value ELSE @[j]]
                                    ELSE IF Ok(c) THEN @ ELSE Without(@, key)]
    IN  /\ Running
        /\ shadow.ops < shadow.budget
        /\ shadow.calls[key] < MaxVal
        /\ Done(Insert(Ctx(bpm, tree), key, shadow.calls[key] + 1),
                shadow.calls[key] + 1)
        /\ UNCHANGED thr

TreeRemove(key) ==
    LET Done(c) ==
            /\ bpm' = c.bpm
            /\ tree' = c.tree
            /\ last' = [op |-> "remove", key |-> key, value |-> 0, ret |-> FALSE,
                        exc |-> c.exc, result |-> <<>>]
            /\ shadow' = [shadow EXCEPT
                            !.ops = @ + 1,
                            !.thrown = @ \/ ~Ok(c),
                            !.unsure = IF Ok(c) THEN @ \ {key} ELSE @ \cup {key},
                            !.map = Without(@, key)]
    IN  /\ Running
        /\ shadow.ops < shadow.budget
        /\ Done(Remove(Ctx(bpm, tree), key))
        /\ UNCHANGED thr

TreeGetValue(key) ==
    LET Done(c) ==
            /\ bpm' = c.bpm
            /\ tree' = c.tree
            /\ last' = [op |-> "get", key |-> key, value |-> 0, ret |-> c.ret,
                        exc |-> c.exc, result |-> c.result]
            /\ shadow' = [shadow EXCEPT !.ops = @ + 1, !.gets = @ + 1,
                                        !.thrown = @ \/ ~Ok(c)]
    IN  /\ Running
        /\ shadow.ops < shadow.budget
        /\ shadow.gets < MaxGets
        /\ Done(GetValue(Ctx(bpm, tree), key))
        /\ UNCHANGED thr

TreeNext ==
    \/ \E key \in Keys : TreeInsert(key)
    \/ \E key \in Keys : TreeRemove(key)
    \/ \E key \in Keys : TreeGetValue(key)

SpecTree == TreeInit /\ [][TreeNext]_vars

-----------------------------------------------------------------------------
(* The tree as its pages hold it.                                           *)

TreeHeight == 3

\* the bytes of page page_id: the frame's when the page is resident, else the
\* disk's
PageNode(s, page_id) ==
    IF Resident(s, page_id) THEN s.pages[FrameOf(s, page_id)].data
    ELSE ReadPage(s.disk, page_id)

IsNode(s, page_id) == page_id >= 0 /\ PageNode(s, page_id).kind = "node"

Children(n) == {ValueAt(n, i) : i \in 0..(n.size - 1)}
LeafKeys(n) == {KeyAt(n, i) : i \in 0..(n.size - 1)}

\* the pages at and below page_id, child pointers followed depth levels down
RECURSIVE Below(_, _, _)
Below(s, page_id, depth) ==
    IF ~IsNode(s, page_id) THEN {}
    ELSE IF depth = 0 \/ IsLeafPage(PageNode(s, page_id)) THEN {page_id}
    ELSE {page_id} \cup
         UNION {Below(s, child, depth - 1) : child \in Children(PageNode(s, page_id))}

TreeNodes == IF IsEmpty(tree) THEN {} ELSE Below(bpm, tree.root_page_id, TreeHeight)
TreeLeaves == {p \in TreeNodes : IsLeafPage(PageNode(bpm, p))}

\* the keys of the leaves at and below page_id
KeysBelow(s, page_id) ==
    UNION {LeafKeys(PageNode(s, p)) :
             p \in {q \in Below(s, page_id, TreeHeight) : IsLeafPage(PageNode(s, q))}}

\* the leaf that child pointers 0 lead to from page_id
RECURSIVE LeftMostLeaf(_, _, _)
LeftMostLeaf(s, page_id, depth) ==
    IF ~IsNode(s, page_id) THEN INVALID_PAGE_ID
    ELSE IF IsLeafPage(PageNode(s, page_id)) THEN page_id
    ELSE IF depth = 0 \/ PageNode(s, page_id).size = 0 THEN INVALID_PAGE_ID
    ELSE LeftMostLeaf(s, ValueAt(PageNode(s, page_id), 0), depth - 1)

\* the leaves met from page_id on along next_page_id, at most steps of them
RECURSIVE ChainFrom(_, _, _)
ChainFrom(s, page_id, steps) ==
    IF steps = 0 \/ ~IsNode(s, page_id) THEN <<>>
    ELSE <<page_id>> \o ChainFrom(s, PageNode(s, page_id).next_page_id, steps - 1)

LeafChain ==
    IF IsEmpty(tree) THEN <<>>
    ELSE ChainFrom(bpm, LeftMostLeaf(bpm, tree.root_page_id, TreeHeight),
                   bpm.next_page_id)

\* the keys a walk along the leaf chain yields, in the order it yields them
RECURSIVE ChainKeys(_)
ChainKeys(chain) ==
    IF chain = <<>> THEN <<>>
    ELSE [i \in 1..PageNode(bpm, Head(chain)).size |->
             KeyAt(PageNode(bpm, Head(chain)), i - 1)]
         \o ChainKeys(Tail(chain))

StrictlyAscending(seq) == \A i, j \in DOMAIN seq : i < j => seq[i] < seq[j]

\* the child the spec's descent rule picks: the largest i in [1, size) with
\* K_i <= key, or 0
DescentRule(n, key) ==
    LET c == {i \in 1..(n.size - 1) : KeyAt(n, i) <= key}
    IN  IF c = {} THEN 0 ELSE CHOOSE i \in c : \A j \in c : j <= i

\* C1: after any sequence of Insert and Remove calls, GetValue(k) returns
\* value v exactly when the last completed call on k was an Insert(k, v) that
\* returned true, and not-found otherwise; at each internal node the descent
\* takes child i for the largest i in [1, size) with K_i <= k, else child 0.
C1_GetMatchesInserts ==
    Running =>
      /\ \A key \in Keys \ shadow.unsure :
            LET r == GetValue(Ctx(bpm, tree), key)
            IN  /\ Ok(r)
                /\ r.ret = (key \in DOMAIN shadow.map)
                /\ r.ret => r.result = <<shadow.map[key]>>
      /\ \A p \in TreeNodes \ TreeLeaves : \A key \in Keys :
            ChildIndex(PageNode(bpm, p), key) - 1 = DescentRule(PageNode(bpm, p), key)

C3_LeafChain ==
    Running =>
      /\ StrictlyAscending(ChainKeys(LeafChain))
      /\ Range(LeafChain) = TreeLeaves
      /\ Range(ChainKeys(LeafChain)) = DOMAIN shadow.map \cup
            {k \in shadow.unsure : GetValue(Ctx(bpm, tree), k).ret}

\* C4: after any sequence of Insert and Remove calls, every non-root node has
\* min_size <= size <= max_size with min_size = ceil(max_size / 2), and an
\* internal root has at least two children.
C4_NodeSizes ==
    Running =>
      \A p \in TreeNodes :
         LET n == PageNode(bpm, p)
         IN  IF p = tree.root_page_id
             THEN IsLeafPage(n) \/ n.size >= 2
             ELSE /\ GetMinSize(n) <= n.size
                  /\ n.size <= n.max_size

\* C5: after any sequence of Insert and Remove calls, every separator K_i,
\* i > 0, of an internal node is the least key stored below child i.
C5_SeparatorIsMin ==
    Running =>
      \A p \in TreeNodes \ TreeLeaves :
         LET n == PageNode(bpm, p)
         IN  \A i \in 1..(n.size - 1) :
                /\ KeyAt(n, i) \in KeysBelow(bpm, ValueAt(n, i))
                /\ \A k \in KeysBelow(bpm, ValueAt(n, i)) : KeyAt(n, i) <= k

-----------------------------------------------------------------------------
(* The same client on a tree of leaf_max_size WideLeafMax and              *)
(* internal_max_size WideInternalMax, with keys 1..WideKey and WideOps     *)
(* calls.                                                                  *)

WideLeafMax == 4
WideInternalMax == 4
WideKey == 5
WideOps == 7

WideKeys == 1..WideKey

WideInit ==
    /\ bpm = NewPgImp(BufferPoolManagerInstance(TreeFrames, ReplacerK)).bpm
    /\ tree = BPlusTree(WideLeafMax, WideInternalMax)
    /\ shadow = [map |-> <<>>, unsure |-> {}, calls |-> [k \in WideKeys |-> 0],
                 ops |-> 0, gets |-> 0, thrown |-> FALSE,
                 budget |-> WideOps]
    /\ last = NoTreeCall
    /\ thr = [latch |-> 0]

WideNext ==
    \/ \E key \in WideKeys : TreeInsert(key)
    \/ \E key \in WideKeys : TreeRemove(key)
    \/ \E key \in WideKeys : TreeGetValue(key)

SpecTreeWide == WideInit /\ [][WideNext]_vars

\* the page ids the pool s has issued
IssuedPages(s) == 0..(s.next_page_id - 1)

\* the pin count and the dirty flag of page page_id in pool s
PinCount(s, page_id) ==
    IF Resident(s, page_id) THEN s.pages[FrameOf(s, page_id)].pin_count ELSE 0
IsDirty(s, page_id) == Resident(s, page_id) /\ s.pages[FrameOf(s, page_id)].is_dirty

\* the keys of the leaves child pointers lead to from the root
StoredKeys == IF IsEmpty(tree) THEN {} ELSE KeysBelow(bpm, tree.root_page_id)

\* pool s2 shows the bytes, the pin counts and no more dirty pages than pool s
SamePages(s, s2) ==
    /\ s2.next_page_id = s.next_page_id
    /\ \A p \in IssuedPages(s) :
          /\ PageNode(s2, p) = PageNode(s, p)
          /\ PinCount(s2, p) = PinCount(s, p)
          /\ IsDirty(s2, p) => IsDirty(s, p)

\* C23: Insert of a key the tree stores returns false and changes nothing:
\* root_page_id, the bytes of every page (every node, with it the leaf chain,
\* and the header page's record) and every pin count are as before, and no
\* page is marked dirty by the call.
C23_DuplicateInsert ==
    Running =>
      /\ \A key \in StoredKeys, value \in 1..MaxVal :
            LET c == Insert(Ctx(bpm, tree), key, value)
            IN  /\ Ok(c)
                /\ ~c.ret
                /\ c.tree = tree
                /\ SamePages(bpm, c.bpm)
      /\ (last.op = "insert" /\ last.exc = "none" /\ ~last.ret) =>
            /\ last.key \in StoredKeys
            /\ GetValue(Ctx(bpm, tree), last.key).ret
            /\ GetValue(Ctx(bpm, tree), last.key).result # <<last.value>>

\* an Insert of a stored key returned false on a tree whose root is internal
C23_Witness ==
    /\ last.op = "insert" /\ last.exc = "none" /\ ~last.ret
    /\ last.key \in StoredKeys
    /\ ~IsLeafPage(PageNode(bpm, tree.root_page_id))
    /\ PageNode(bpm, tree.root_page_id).size = 2

\* c after Insert(k, 1) for each key k of keys in turn, up to an exception
RECURSIVE InsertedAll(_, _)
InsertedAll(c, keys) ==
    IF keys = <<>> \/ ~Ok(c) THEN c
    ELSE InsertedAll(Insert(Ctx(c.bpm, c.tree), Head(keys), 1), Tail(keys))

\* c after Remove(k) for each key k of keys in turn, up to an exception
RECURSIVE RemovedAll(_, _)
RemovedAll(c, keys) ==
    IF keys = <<>> \/ ~Ok(c) THEN c
    ELSE RemovedAll(Remove(Ctx(c.bpm, c.tree), Head(keys)), Tail(keys))

\* leaf_max_size = 4, internal_max_size = 4, keys 1,2,3,4,5 inserted in order
\* into an empty tree
FiveInserted ==
    InsertedAll(Ctx(NewPgImp(BufferPoolManagerInstance(TreeFrames, ReplacerK)).bpm,
                    BPlusTree(4, 4)),
                <<1, 2, 3, 4, 5>>)

\* the keys of page page_id of pool s, in slot order
KeySeq(s, page_id) ==
    [i \in 1..PageNode(s, page_id).size |-> KeyAt(PageNode(s, page_id), i - 1)]

\* the keys a walk along the leaves of chain in pool s yields
RECURSIVE ChainKeysOf(_, _)
ChainKeysOf(s, chain) ==
    IF chain = <<>> THEN <<>>
    ELSE KeySeq(s, Head(chain)) \o ChainKeysOf(s, Tail(chain))

\* the tree of pool s rooted at root_page_id is an internal root over two
\* leaves holding keys left and right, split by separator, the first leaf
\* chained to the second
TwoLeaves(s, root_page_id, separator, left, right) ==
    /\ IsNode(s, root_page_id)
    /\ ~IsLeafPage(PageNode(s, root_page_id))
    /\ PageNode(s, root_page_id).size = 2
    /\ PageNode(s, root_page_id).parent_page_id = INVALID_PAGE_ID
    /\ KeyAt(PageNode(s, root_page_id), 1) = separator
    /\ LET l == ValueAt(PageNode(s, root_page_id), 0)
           r == ValueAt(PageNode(s, root_page_id), 1)
       IN  /\ IsNode(s, l) /\ IsLeafPage(PageNode(s, l))
           /\ IsNode(s, r) /\ IsLeafPage(PageNode(s, r))
           /\ KeySeq(s, l) = left
           /\ KeySeq(s, r) = right
           /\ PageNode(s, l).parent_page_id = root_page_id
           /\ PageNode(s, r).parent_page_id = root_page_id
           /\ PageNode(s, l).next_page_id = r
           /\ PageNode(s, r).next_page_id = INVALID_PAGE_ID
           /\ ChainKeysOf(s, ChainFrom(s, LeftMostLeaf(s, root_page_id, TreeHeight),
                                       s.next_page_id)) = left \o right

\* C24 (amended): with leaf_max_size = 4 and internal_max_size = 4, inserting
\* 1,2,3,4,5 into an empty tree makes the root an internal node with separator
\* 4 over two leaves {1,2,3} and {4,5}, and the leaf chain yields 1,2,3,4,5.
\* Whenever Insert splits a root leaf, the first ceil((max_size + 1) / 2) of
\* the entries stay in the old leaf and the first key of the new leaf is the
\* separator.
C24_LeafSplitExample ==
    /\ Ok(FiveInserted) /\ FiveInserted.ret
    /\ TwoLeaves(FiveInserted.bpm, FiveInserted.tree.root_page_id,
                 4, <<1, 2, 3>>, <<4, 5>>)
    /\ (Running /\ ~IsEmpty(tree) /\ IsNode(bpm, tree.root_page_id)) =>
          LET root == PageNode(bpm, tree.root_page_id)
          IN  (IsLeafPage(root) /\ root.size = root.max_size) =>
                 \A key \in DOMAIN shadow.calls \ LeafKeys(root) :
                    LET c == Insert(Ctx(bpm, tree), key, 1)
                        all == SortedSeq(LeafKeys(root) \cup {key})
                        keep == (root.max_size + 2) \div 2
                    IN  /\ Ok(c) /\ c.ret
                        /\ ValueAt(PageNode(c.bpm, c.tree.root_page_id), 0)
                              = tree.root_page_id
                        /\ TwoLeaves(c.bpm, c.tree.root_page_id, all[keep + 1],
                                     SubSeq(all, 1, keep),
                                     SubSeq(all, keep + 1, Len(all)))

\* the tree is the one that 1,2,3,4,5 inserted in order give
C24_Witness ==
    /\ last.op = "insert" /\ last.key = 5 /\ last.ret /\ last.exc = "none"
    /\ shadow.ops = 5
    /\ tree.leaf_max_size = 4 /\ tree.internal_max_size = 4
    /\ bpm = FiveInserted.bpm
    /\ tree = FiveInserted.tree

\* C24 as stated: in the tree that 1,2,3,4,5 inserted in order give, the root
\* has separator 3 over the leaves {1,2} and {3,4,5}
C24_AsStated ==
    (bpm = FiveInserted.bpm /\ tree = FiveInserted.tree) =>
       TwoLeaves(bpm, tree.root_page_id, 3, <<1, 2>>, <<3, 4, 5>>)

\* FiveInserted after Remove(5) and then Remove(4)
FiveInsertedTwoRemoved ==
    RemovedAll(Ctx(FiveInserted.bpm, FiveInserted.tree), <<5, 4>>)

\* the tree of pool s rooted at root_page_id is one leaf holding keys
SingleLeaf(s, root_page_id, keys) ==
    /\ IsNode(s, root_page_id)
    /\ IsLeafPage(PageNode(s, root_page_id))
    /\ PageNode(s, root_page_id).parent_page_id = INVALID_PAGE_ID
    /\ PageNode(s, root_page_id).next_page_id = INVALID_PAGE_ID
    /\ KeySeq(s, root_page_id) = keys
    /\ Below(s, root_page_id, TreeHeight) = {root_page_id}
    /\ HeaderRecords(PageNode(s, HEADER_PAGE_ID))
          = HeaderRecords(HeaderData(UpdateRecord(HeaderRecords(PageNode(s, HEADER_PAGE_ID)),
                                                  IndexName, root_page_id)))

\* C25: with leaf_max_size = 4 and internal_max_size = 4, after inserting
\* 1,2,3,4,5 and then removing 5 and then 4 the right leaf has been merged into
\* the left one, the internal root is gone, and the root is that left leaf,
\* holding 1,2,3, with parent_page_id INVALID_PAGE_ID: a tree of height 1.
\* Whenever a Remove leaves an internal root over two leaves as a leaf root,
\* that root is the former left leaf and holds the keys that were stored, less
\* the key removed.
C25_CoalesceExample ==
    /\ Ok(FiveInsertedTwoRemoved)
    /\ FiveInsertedTwoRemoved.tree.root_page_id
          = ValueAt(PageNode(FiveInserted.bpm, FiveInserted.tree.root_page_id), 0)
    /\ SingleLeaf(FiveInsertedTwoRemoved.bpm, FiveInsertedTwoRemoved.tree.root_page_id,
                  <<1, 2, 3>>)
    /\ (bpm = FiveInsertedTwoRemoved.bpm /\ tree = FiveInsertedTwoRemoved.tree) =>
          /\ SingleLeaf(bpm, tree.root_page_id, <<1, 2, 3>>)
          /\ LeafChain = <<tree.root_page_id>>
    /\ (Running /\ ~IsEmpty(tree) /\ IsNode(bpm, tree.root_page_id)) =>
          LET root == PageNode(bpm, tree.root_page_id)
          IN  (~IsLeafPage(root) /\ root.size = 2) =>
                 \A key \in StoredKeys :
                    LET c == Remove(Ctx(bpm, tree), key)
                    IN  (/\ Ok(c)
                         /\ IsNode(c.bpm, c.tree.root_page_id)
                         /\ IsLeafPage(PageNode(c.bpm, c.tree.root_page_id))) =>
                           /\ c.tree.root_page_id = ValueAt(root, 0)
                           /\ SingleLeaf(c.bpm, c.tree.root_page_id,
                                         SortedSeq(StoredKeys \ {key}))

\* the tree is the one that 1,2,3,4,5 inserted and then 5 and 4 removed give
C25_Witness ==
    /\ last.op = "remove" /\ last.key = 4 /\ last.exc = "none"
    /\ shadow.ops = 7
    /\ tree.leaf_max_size = 4 /\ tree.internal_max_size = 4
    /\ bpm = FiveInsertedTwoRemoved.bpm
    /\ tree = FiveInsertedTwoRemoved.tree
    /\ StoredKeys = {1, 2, 3}

\* the call that gave c returned normally and left every page's pin count as
\* it found it, a page the call created being left unpinned
PinsBalanced(c) ==
    Ok(c) => \A p \in IssuedPages(c.bpm) :
                PinCount(c.bpm, p) = IF p \in IssuedPages(bpm) THEN PinCount(bpm, p) ELSE 0

\* only the header page, which the client holds, is pinned
OnlyHeaderPinned ==
    \A p \in IssuedPages(bpm) : PinCount(bpm, p) = IF p = HEADER_PAGE_ID THEN 1 ELSE 0

\* C26: a GetValue, Insert or Remove that returns normally has unpinned every
\* page it fetched or created once per fetch or new: every pin count is what it
\* was before the call, and so 0 on every page of a tree whose calls all
\* returned normally (the header page stays pinned once by the client that
\* allocated it).
C26_PinsReleased ==
    /\ Running =>
          \A key \in DOMAIN shadow.calls :
             /\ PinsBalanced(GetValue(Ctx(bpm, tree), key))
             /\ PinsBalanced(Insert(Ctx(bpm, tree), key, MaxVal))
             /\ PinsBalanced(Remove(Ctx(bpm, tree), key))
    /\ ~shadow.thrown => OnlyHeaderPinned

\* a Remove that merged two leaves and collapsed the root returned with only
\* the header page pinned
C26_Witness ==
    /\ last.op = "remove" /\ last.exc = "none"
    /\ ~shadow.thrown
    /\ OnlyHeaderPinned
    /\ ~IsEmpty(tree)
    /\ IsLeafPage(PageNode(bpm, tree.root_page_id))
    /\ \E p \in IssuedPages(bpm) :
          /\ IsNode(bpm, p) /\ ~IsLeafPage(PageNode(bpm, p))
          /\ p # tree.root_page_id

-----------------------------------------------------------------------------
(* The tree called by several threads.  BPlusTree takes no latch, so the    *)
(* calls of different threads interleave.  A thread either runs a whole     *)
(* call without the others running, or is preempted once inside             *)
(* InsertIntoLeaf: after it has found the leaf, read its size, seen that    *)
(* the key is absent and the leaf not full and computed insert_pos, and     *)
(* before it shifts the slots and stores the entry.  thr[t] holds the       *)
(* locals of thread t across that point.  The keys of calls in flight are   *)
(* pairwise distinct.                                                       *)

TreeThreads == 2
MTOps == 4

TreeThreadIds == 1..TreeThreads

IdleThread == [pc |-> "idle", key |-> 0, value |-> 0, page |-> nullptr, size |-> 0,
               insert_pos |-> 0]

TreeMTInit ==
    /\ bpm = NewPgImp(BufferPoolManagerInstance(TreeFrames, ReplacerK)).bpm
    /\ tree = BPlusTree(LeafMax, InternalMax)
    /\ shadow = [map |-> <<>>, unsure |-> {}, calls |-> [k \in Keys |-> 0],
                 ops |-> 0, gets |-> 0, thrown |-> FALSE,
                 budget |-> MTOps]
    /\ last = NoTreeCall
    /\ thr = [t \in TreeThreadIds |-> IdleThread]

\* the keys of the calls in flight
InFlight == {thr[t].key : t \in {u \in TreeThreadIds : thr[u].pc # "idle"}}

\* the shifting loop and the stores of InsertIntoLeaf run with the locals size
\* and insert_pos on the leaf as it is now, then IncreaseSize(1)
InsertSlotStale(n, size, insert_pos, key, value) ==
    LET Stored(a) ==
            [j \in 1..Len(a) |->
                IF j = insert_pos + 1 THEN [first |-> key, second |-> value]
                ELSE IF j > insert_pos + 1 /\ j <= size + 1 THEN a[j - 1]
                ELSE a[j]]
    IN  IncreaseSize([n EXCEPT !.array = Stored(Padded(n.array, size + 1))], 1)

\* thread t runs a whole call while the others stand still
TreeMTWhole(t) ==
    /\ thr[t].pc = "idle"
    /\ \E key \in Keys \ InFlight :
          \/ TreeInsert(key)
          \/ TreeRemove(key)
          \/ TreeGetValue(key)

\* thread t enters Insert and is preempted in InsertIntoLeaf before the stores
TreeMTInsertLocate(t, key) ==
    LET Located(d, value) ==
            /\ Ok(d)
            /\ d.page # nullptr
            /\ IndexOfKey(Node(d, d.page), key) = -1
            /\ Node(d, d.page).size < Node(d, d.page).max_size
            /\ bpm' = d.bpm
            /\ thr' = [thr EXCEPT ![t] =
                         [pc |-> "located", key |-> key, value |-> value,
                          page |-> d.page, size |-> Node(d, d.page).size,
                          insert_pos |-> InsertPos(Node(d, d.page), key)]]
            /\ shadow' = [shadow EXCEPT !.ops = @ + 1, !.calls[key] = value]
    IN  /\ Running
        /\ thr[t].pc = "idle"
        /\ key \notin InFlight
        /\ shadow.ops < shadow.budget
        /\ shadow.calls[key] < MaxVal
        /\ ~IsEmpty(tree)
        /\ Located(FindLeafPage(Ctx(bpm, tree), key, FALSE), shadow.calls[key] + 1)
        /\ UNCHANGED <<tree, last>>

\* thread t resumes: it shifts, stores, unpins the leaf dirty and returns true
TreeMTInsertStore(t) ==
    LET l == thr[t]
        Stored(s) ==
            /\ bpm' = UnpinPgImp(s, s.pages[l.page].page_id, TRUE).bpm
            /\ last' = [op |-> "insert", key |-> l.key, value |-> l.value, ret |-> TRUE,
                        exc |-> "none", result |-> <<>>]
            /\ shadow' = [shadow EXCEPT
                            !.map = [j \in DOMAIN @ \cup {l.key} |->
                                        IF j = l.key THEN l.value ELSE @[j]]]
            /\ thr' = [thr EXCEPT ![t] = IdleThread]
    IN  /\ Running
        /\ l.pc = "located"
        /\ Stored([bpm EXCEPT !.pages[l.page].data =
                      InsertSlotStale(@, l.size, l.insert_pos, l.key, l.value)])
        /\ UNCHANGED tree

TreeMTNext ==
    \/ \E t \in TreeThreadIds : TreeMTWhole(t)
    \/ \E t \in TreeThreadIds, key \in Keys : TreeMTInsertLocate(t, key)
    \/ \E t \in TreeThreadIds : TreeMTInsertStore(t)

SpecTreeMT == TreeMTInit /\ [][TreeMTNext]_vars

\* no call is in flight
AllIdle == \A t \in TreeThreadIds : thr[t].pc = "idle"

\* C27: calls of different threads on distinct keys leave what the calls made
\* one at a time in some order would: once no call is in flight, every key
\* whose last Insert returned true, no Remove following, is found by GetValue
\* with that Insert's value, every other key is absent, and every leaf's keys
\* are strictly ascending.
C27_Serializable ==
    (Running /\ AllIdle /\ ~shadow.thrown) =>
       /\ \A key \in Keys :
             LET r == GetValue(Ctx(bpm, tree), key)
             IN  /\ Ok(r)
                 /\ r.ret = (key \in DOMAIN shadow.map)
                 /\ r.ret => r.result = <<shadow.map[key]>>
       /\ \A p \in TreeLeaves :
             /\ StrictlyAscending(KeySeq(bpm, p))
             /\ PageNode(bpm, p).size <= PageNode(bpm, p).max_size

-----------------------------------------------------------------------------
(* Threads that only call GetValue on a tree loaded beforehand.  Each pool  *)
(* call runs under the pool's latch_ and is one step; between two pool      *)
(* calls of a thread the others run.  A thread reads a page only while it   *)
(* holds a pin on it, and no thread writes a page.  thr[t] holds            *)
(* FindLeafPage's locals of thread t: the Page* in hand (page) or the child *)
(* about to be fetched (child); steps counts the pool calls the call in     *)
(* progress has made.                                                       *)

GetFrames == 4
GetCalls == 2

\* the value the client stored for key
StoredValue(key) == key + 10

\* c after Insert(k, StoredValue(k)) for each key k of keys in turn
RECURSIVE InsertedEach(_, _)
InsertedEach(c, keys) ==
    IF keys = <<>> \/ ~Ok(c) THEN c
    ELSE InsertedEach(Insert(Ctx(c.bpm, c.tree), Head(keys), StoredValue(Head(keys))),
                      Tail(keys))

\* the client allocates the header page and unpins it, then inserts 1, 2, 3
\* into a tree of leaf_max_size = internal_max_size = 2: a root over the
\* leaves {1,2} and {3}
Preloaded ==
    InsertedEach(Ctx(UnpinPgImp(NewPgImp(BufferPoolManagerInstance(GetFrames,
                                                                   ReplacerK)).bpm,
                                HEADER_PAGE_ID, TRUE).bpm,
                     BPlusTree(2, 2)),
                 <<1, 2, 3>>)

PreloadedKeys == {1, 2, 3}

\* the client allocates one more page and unpins it: with GetFrames = 4 that
\* pushes a page of the tree out of the pool
Crowded(s) ==
    LET Made(r) == IF r.page = nullptr THEN r.bpm
                   ELSE UnpinPgImp(r.bpm, r.page_id, FALSE).bpm
    IN  Made(NewPgImp(s))

NoGet == [pc |-> "idle", key |-> 0, page |-> nullptr, child |-> INVALID_PAGE_ID,
          steps |-> 0]

GetInit ==
    /\ \E crowd \in BOOLEAN :
          bpm = IF crowd THEN Crowded(Preloaded.bpm) ELSE Preloaded.bpm
    /\ tree = Preloaded.tree
    /\ shadow = [gets |-> [t \in TreeThreadIds |-> 0]]
    /\ last = NoTreeCall
    /\ thr = [t \in TreeThreadIds |-> NoGet]

\* GetValue returns to thread t's caller
GetReturn(t, s, ret, result) ==
    /\ bpm' = s
    /\ last' = [op |-> "get", key |-> thr[t].key, value |-> t, ret |-> ret,
                exc |-> "none", result |-> result]
    /\ thr' = [thr EXCEPT ![t] = NoGet]
    /\ UNCHANGED <<tree, shadow>>

\* a FetchPage of FindLeafPage has returned r to thread t running GetValue(key)
GetFetched(t, key, r) ==
    IF r.page = nullptr
    THEN /\ bpm' = r.bpm
         /\ last' = [op |-> "get", key |-> key, value |-> t, ret |-> FALSE,
                     exc |-> "none", result |-> <<>>]
         /\ thr' = [thr EXCEPT ![t] = NoGet]
    ELSE /\ bpm' = r.bpm
         /\ thr' = [thr EXCEPT ![t] = [pc |-> "at", key |-> key, page |-> r.page,
                                       child |-> INVALID_PAGE_ID,
                                       steps |-> thr[t].steps + 1]]
         /\ UNCHANGED last

\* GetValue's search of the leaf in frame f without the UnpinPage of a miss
LeafSearchedKeepPin(s, f, key) ==
    LET i == IndexOfKey(s.pages[f].data, key)
    IN  [bpm |-> IF i = -1 THEN s ELSE UnpinPgImp(s, s.pages[f].page_id, FALSE).bpm,
         ret |-> i # -1,
         result |-> IF i = -1 THEN <<>> ELSE <<ValueAt(s.pages[f].data, i)>>]

\* GetValue's search of the leaf in frame f and its UnpinPage
LeafSearched(s, f, key) ==
    LET i == IndexOfKey(s.pages[f].data, key)
    IN  [bpm |-> UnpinPgImp(s, s.pages[f].page_id, FALSE).bpm,
         ret |-> i # -1,
         result |-> IF i = -1 THEN <<>> ELSE <<ValueAt(s.pages[f].data, i)>>]

\* thread t calls GetValue(key): the tree is not empty, FetchPage(root)
GetBegin(t, key) ==
    /\ thr[t].pc = "idle"
    /\ shadow.gets[t] < GetCalls
    /\ ~IsEmpty(tree)
    /\ GetFetched(t, key, FetchPgImp(bpm, tree.root_page_id))
    /\ shadow' = [shadow EXCEPT !.gets[t] = @ + 1]
    /\ UNCHANGED tree

\* the page in hand is internal: pick the child, UnpinPage(page); ValueAt of
\* an index out of range throws, the page left pinned
GetDown(t) ==
    LET node == bpm.pages[thr[t].page].data
        index == ChildIndex(node, thr[t].key) - 1
    IN  /\ thr[t].pc = "at"
        /\ ~IsLeafPage(node)
        /\ IF InRange(node, index)
           THEN /\ bpm' = UnpinPgImp(bpm, bpm.pages[thr[t].page].page_id, FALSE).bpm
                /\ thr' = [thr EXCEPT ![t] = [pc |-> "fetch", key |-> thr[t].key,
                                              page |-> nullptr,
                                              child |-> ValueAt(node, index),
                                              steps |-> thr[t].steps + 1]]
                /\ UNCHANGED last
           ELSE /\ last' = [op |-> "get", key |-> thr[t].key, value |-> t,
                            ret |-> FALSE, exc |-> "out_of_range", result |-> <<>>]
                /\ thr' = [thr EXCEPT ![t] = NoGet]
                /\ UNCHANGED bpm
        /\ UNCHANGED <<tree, shadow>>

\* FetchPage(child_page_id)
GetChild(t) ==
    /\ thr[t].pc = "fetch"
    /\ GetFetched(t, thr[t].key, FetchPgImp(bpm, thr[t].child))
    /\ UNCHANGED <<tree, shadow>>

\* the page in hand is the leaf: search it, UnpinPage, return
GetLeaf(t) ==
    LET Done(r) == GetReturn(t, r.bpm, r.ret, r.result)
    IN  /\ thr[t].pc = "at"
        /\ IsLeafPage(bpm.pages[thr[t].page].data)
        /\ Done(LeafSearched(bpm, thr[t].page, thr[t].key))

GetNext ==
    \/ \E t \in TreeThreadIds, key \in Keys : GetBegin(t, key)
    \/ \E t \in TreeThreadIds : GetDown(t)
    \/ \E t \in TreeThreadIds : GetChild(t)
    \/ \E t \in TreeThreadIds : GetLeaf(t)

SpecTreeGet == GetInit /\ [][GetNext]_vars

\* the pins on page page_id held by the threads
PinsHeld(page_id) ==
    Cardinality({t \in TreeThreadIds :
                    /\ thr[t].page # nullptr
                    /\ bpm.pages[thr[t].page].page_id = page_id})

\* every GetValue that has returned found a stored key with its value and no
\* other key, and each page is pinned once per thread holding it
GetsRight ==
    /\ last.op = "get" =>
          /\ last.exc = "none"
          /\ last.ret = (last.key \in PreloadedKeys)
          /\ last.ret => last.result = <<StoredValue(last.key)>>
    /\ \A f \in DOMAIN bpm.pages :
          bpm.pages[f].pin_count =
             IF bpm.pages[f].page_id = INVALID_PAGE_ID THEN 0
             ELSE PinsHeld(bpm.pages[f].page_id)
    /\ AllIdle => \A f \in DOMAIN bpm.pages : bpm.pages[f].pin_count = 0

\* the levels of the tree of pool s below and with page page_id
RECURSIVE Levels(_, _)
Levels(s, page_id) ==
    IF IsLeafPage(PageNode(s, page_id)) THEN 1
    ELSE 1 + Levels(s, ValueAt(PageNode(s, page_id), 0))

\* every thread inside a call can take its next step, and has made fewer pool
\* calls than the two per level a descent makes
NoThreadBlocked ==
    \A t \in TreeThreadIds :
       /\ thr[t].pc = "at" =>
             /\ thr[t].page # nullptr
             /\ bpm.pages[thr[t].page].pin_count > 0
             /\ bpm.pages[thr[t].page].data.kind = "node"
             /\ \/ IsLeafPage(bpm.pages[thr[t].page].data)
                \/ InRange(bpm.pages[thr[t].page].data,
                           ChildIndex(bpm.pages[thr[t].page].data, thr[t].key) - 1)
       /\ thr[t].pc = "fetch" => thr[t].child \in IssuedPages(bpm)
       /\ thr[t].pc # "idle" => thr[t].steps < 2 * Levels(bpm, tree.root_page_id)

\* C28: with threads that only call GetValue on a loaded tree, every GetValue
\* of a stored key returns the value stored for it, no thread is ever blocked
\* (a call in progress can always take its next step and ends within two pool
\* calls per level), and once no call is in progress every frame's pin count
\* is 0.
C28_ConcurrentGets == GetsRight /\ NoThreadBlocked

\* both threads have made their calls, the last returned the value of a stored
\* key, while a page of the tree had been pushed out of the pool, and every
\* frame is unpinned
C28_Witness ==
    /\ AllIdle
    /\ \A t \in TreeThreadIds : shadow.gets[t] = GetCalls
    /\ last.op = "get" /\ last.ret /\ last.result = <<StoredValue(last.key)>>
    /\ \E p \in IssuedPages(bpm) : ~Resident(bpm, p)
    /\ \A f \in DOMAIN bpm.pages : bpm.pages[f].pin_count = 0

-----------------------------------------------------------------------------
(* The tree over a pool that runs out of frames.  Besides calling the tree, *)
(* the client allocates pages of its own and keeps them pinned for a while; *)
(* thr.held is the set of the pages it holds, thr.made counts the pages it  *)
(* has allocated.  The header page stays pinned as before.                  *)

TightFrames == 4
TightHeld == 3
TightOps == 3

\* the page ids the pool can have issued
TightPageIds == 0..(TightHeld + 2 * TightOps)

TightInit ==
    /\ bpm = NewPgImp(BufferPoolManagerInstance(TightFrames, ReplacerK)).bpm
    /\ tree = BPlusTree(LeafMax, InternalMax)
    /\ shadow = [map |-> <<>>, unsure |-> {}, calls |-> [k \in Keys |-> 0],
                 ops |-> 0, gets |-> 0, thrown |-> FALSE,
                 budget |-> TightOps]
    /\ last = NoTreeCall
    /\ thr = [held |-> {}, made |-> 0]

\* the client calls NewPage and keeps the page pinned
TightHold ==
    LET Made(r) ==
            /\ r.page # nullptr
            /\ bpm' = r.bpm
            /\ thr' = [held |-> thr.held \cup {r.page_id}, made |-> thr.made + 1]
    IN  /\ Running
        /\ thr.made < TightHeld
        /\ Made(NewPgImp(bpm))
        /\ UNCHANGED <<tree, shadow, last>>

\* the client unpins a page it holds
TightRelease(page_id) ==
    /\ Running
    /\ page_id \in thr.held
    /\ bpm' = UnpinPgImp(bpm, page_id, FALSE).bpm
    /\ thr' = [thr EXCEPT !.held = @ \ {page_id}]
    /\ UNCHANGED <<tree, shadow, last>>

TightNext ==
    \/ \E key \in Keys : TreeInsert(key)
    \/ \E key \in Keys : TreeRemove(key)
    \/ \E key \in Keys : TreeGetValue(key)
    \/ TightHold
    \/ \E page_id \in TightPageIds : TightRelease(page_id)

SpecTreeTight == TightInit /\ [][TightNext]_vars

\* the keys the leaves below the root of context c hold
StoredIn(c) == IF IsEmpty(c.tree) THEN {} ELSE KeysBelow(c.bpm, c.tree.root_page_id)

\* C29: an Insert during which the pool gives no page for a NewPage ends with
\* an OUT_OF_MEMORY exception, and every key the tree stored before the call
\* is still stored below the root after it (the tree unchanged when nothing
\* was modified yet, the split's survivors when the failure came mid-split).
C29_AllocationFailure ==
    (Running /\ ~shadow.thrown) =>
       \A key \in Keys :
          LET c == Insert(Ctx(bpm, tree), key, MaxVal)
          IN  c.exc = "OUT_OF_MEMORY" => StoredKeys \subseteq StoredIn(c)

\* C30: Insert returns false only for a key the tree stores, and GetValue of
\* a key the tree stores does not return false, however few frames the pool
\* has free: a page the pool cannot supply is an error, not a false return.
C30_FalseOnlyForDuplicate ==
    (Running /\ ~shadow.thrown) =>
       \A key \in Keys :
          LET c == Insert(Ctx(bpm, tree), key, MaxVal)
              g == GetValue(Ctx(bpm, tree), key)
          IN  /\ (Ok(c) /\ ~c.ret) => key \in StoredKeys
              /\ key \in StoredKeys => ~(Ok(g) /\ ~g.ret)

-----------------------------------------------------------------------------
(* The header page's record and the pages the tree gives back.              *)

\* the root page id the header page of pool s records for the index, or
\* "none" when it holds no record of that name
HeaderRoot(s) ==
    LET records == HeaderRecords(PageNode(s, HEADER_PAGE_ID))
    IN  IF IndexName \in DOMAIN records THEN <<records[IndexName]>> ELSE <<>>

\* C31: after every call that returned, the header page's record for the
\* index is the tree's root_page_id (no record yet only while the tree never
\* had a root): after the first Insert, a root split, a root collapse, the
\* tree becoming empty, and an Insert into a tree that had become empty.
C31_HeaderRecord ==
    (Running /\ ~shadow.thrown) =>
       \/ HeaderRoot(bpm) = <<tree.root_page_id>>
       \/ HeaderRoot(bpm) = <<>> /\ IsEmpty(tree)

\* Insert(key) would split a leaf whose parent holds max_size children
SplitsParent(key) ==
    LET d == FindLeafPage(Ctx(bpm, tree), key, FALSE)
        leaf == Node(d, d.page)
    IN  /\ ~IsEmpty(tree)
        /\ Ok(d) /\ d.page # nullptr
        /\ key \notin StoredKeys
        /\ leaf.size = leaf.max_size
        /\ ~IsRootPage(leaf)
        /\ PageNode(bpm, leaf.parent_page_id).size =
              PageNode(bpm, leaf.parent_page_id).max_size

\* C32: an Insert whose leaf split reaches a parent holding max_size children
\* splits the parent, returns true, and every key stored before and the new
\* key are stored below the root afterwards.
C32_InternalSplit ==
    (Running /\ ~shadow.thrown) =>
       \A key \in Keys :
          SplitsParent(key) =>
             LET c == Insert(Ctx(bpm, tree), key, MaxVal)
             IN  /\ Ok(c)
                 /\ c.ret
                 /\ StoredKeys \cup {key} \subseteq StoredIn(c)

-----------------------------------------------------------------------------
(* The tree with room in its root: leaf_max_size LeafMax under an           *)
(* internal_max_size of SplitInternalMax, so that a leaf also splits below  *)
(* a parent that takes the new entry.                                       *)

SplitInternalMax == 3

SplitInit ==
    /\ bpm = NewPgImp(BufferPoolManagerInstance(TreeFrames, ReplacerK)).bpm
    /\ tree = BPlusTree(LeafMax, SplitInternalMax)
    /\ shadow = [map |-> <<>>, unsure |-> {}, calls |-> [k \in Keys |-> 0],
                 ops |-> 0, gets |-> 0, thrown |-> FALSE,
                 budget |-> MaxOps]
    /\ last = NoTreeCall
    /\ thr = [latch |-> 0]

SplitNext ==
    \/ \E key \in Keys : TreeInsert(key)
    \/ \E key \in Keys : TreeRemove(key)
    \/ \E key \in Keys : TreeGetValue(key)

SpecTreeSplit == SplitInit /\ [][SplitNext]_vars

\* the keys of set keys in ascending order
RECURSIVE Ascending(_)
Ascending(keys) ==
    IF keys = {} THEN <<>>
    ELSE LET least == CHOOSE k \in keys : \A j \in keys : k <= j
         IN  <<least>> \o Ascending(keys \ {least})

\* what Insert(key) of a key not stored does to the leaf it reaches, old being
\* the leaf before the call, c the context after it, new_id the next page id
\* the pool had to give
LeafSplitRight(old, c, key, new_id) ==
    LET left == PageNode(c.bpm, old.page_id)
        right == PageNode(c.bpm, new_id)
        parent == PageNode(c.bpm, right.parent_page_id)
        index == IndexOfChild(parent, new_id)
    IN  IF old.size < old.max_size
        THEN /\ Ok(c) /\ c.ret
             /\ c.bpm.next_page_id = new_id
             /\ KeySeq(c.bpm, old.page_id) = Ascending(LeafKeys(old) \cup {key})
        ELSE /\ c.bpm.next_page_id > new_id
             /\ IsLeafPage(right)
             /\ KeySeq(c.bpm, old.page_id) \o KeySeq(c.bpm, new_id)
                   = Ascending(LeafKeys(old) \cup {key})
             /\ left.size = (old.max_size + 2) \div 2
             /\ right.next_page_id = old.next_page_id
             /\ left.next_page_id = new_id
             /\ Ok(c) =>
                   /\ c.ret
                   /\ index > 0
                   /\ KeyAt(parent, index) = KeyAt(right, 0)
                   /\ ValueAt(parent, index - 1) = old.page_id

\* C33: Insert of a key not stored splits the leaf it reaches exactly when
\* that leaf holds max_size entries: the first ceil((max_size+1)/2) of the
\* max_size+1 ordered entries stay, the rest are in a new leaf, new.next is
\* old.next and old.next is new, and the parent holds (first key of the new
\* leaf, new leaf's page id) right after the old leaf's entry.
C33_LeafSplit ==
    (Running /\ ~shadow.thrown /\ ~IsEmpty(tree)) =>
       \A key \in Keys \ StoredKeys :
          LET d == FindLeafPage(Ctx(bpm, tree), key, FALSE)
          IN  LeafSplitRight(Node(d, d.page), Insert(Ctx(bpm, tree), key, MaxVal),
                             key, bpm.next_page_id)

\* an Insert has just split a leaf below a root that had room: the root holds
\* three children
C33_Witness ==
    /\ last.op = "insert" /\ last.exc = "none" /\ last.ret
    /\ ~shadow.thrown
    /\ ~IsLeafPage(PageNode(bpm, tree.root_page_id))
    /\ PageNode(bpm, tree.root_page_id).size = 3
    /\ PageNode(bpm, bpm.next_page_id - 1).parent_page_id = tree.root_page_id
    /\ KeySeq(bpm, bpm.next_page_id - 1) = <<last.key>>

\* the entries of node n without the one at index
EntriesWithout(n, index) ==
    [i \in 1..(n.size - 1) |-> IF i <= index THEN Entries(n)[i] ELSE Entries(n)[i + 1]]

\* what Remove(key) does when it leaves the non-root leaf `leaf` under its
\* minimum: c is the context after the call
RebalanceRight(leaf, c, key) ==
    LET parent == PageNode(bpm, leaf.parent_page_id)
        index == IndexOfChild(parent, leaf.page_id)
        sibling_id == IF index > 0 THEN ValueAt(parent, index - 1)
                      ELSE ValueAt(parent, index + 1)
        left_id == IF index > 0 THEN sibling_id ELSE leaf.page_id
        right_id == IF index > 0 THEN leaf.page_id ELSE sibling_id
        separator == IF index > 0 THEN index ELSE index + 1
        sibling == PageNode(bpm, sibling_id)
        rest == (LeafKeys(PageNode(bpm, left_id)) \cup LeafKeys(PageNode(bpm, right_id)))
                   \ {key}
        parent_after == PageNode(c.bpm, parent.page_id)
    IN  /\ Ok(c)
        /\ \A k \in rest :
              GetValue(Ctx(c.bpm, c.tree), k).result = GetValue(Ctx(bpm, tree), k).result
        /\ IF sibling.size > GetMinSize(sibling)
           THEN /\ KeySeq(c.bpm, left_id) \o KeySeq(c.bpm, right_id) = Ascending(rest)
                /\ PageNode(c.bpm, sibling_id).size = sibling.size - 1
                /\ PageNode(c.bpm, leaf.page_id).size = leaf.size
                /\ parent_after.size = parent.size
                /\ KeyAt(parent_after, separator) = KeyAt(PageNode(c.bpm, right_id), 0)
                /\ c.tree = tree
           ELSE /\ KeySeq(c.bpm, left_id) = Ascending(rest)
                /\ PageNode(c.bpm, left_id).next_page_id
                      = PageNode(bpm, right_id).next_page_id
                /\ IF parent.size > 2
                   THEN /\ c.tree = tree
                        /\ Entries(parent_after) = EntriesWithout(parent, separator)
                   ELSE /\ c.tree.root_page_id = left_id
                        /\ PageNode(c.bpm, left_id).parent_page_id = INVALID_PAGE_ID

\* C34: when Remove leaves a non-root leaf under min_size, the left sibling
\* is taken if the leaf is not its parent's first child, else the right one;
\* a sibling above min_size gives its adjacent entry and the parent's
\* separator between the two becomes the first key of the right-hand leaf;
\* otherwise both leaves are merged into the left-hand one, which takes the
\* right-hand leaf's next_page_id, the separator entry leaves the parent and
\* the parent is rebalanced in turn (a root left with one child gives way to
\* that child).
C34_LeafRebalance ==
    (Running /\ ~shadow.thrown) =>
       \A key \in StoredKeys :
          LET d == FindLeafPage(Ctx(bpm, tree), key, FALSE)
              leaf == Node(d, d.page)
          IN  (~IsRootPage(leaf) /\ leaf.size - 1 < GetMinSize(leaf)) =>
                 RebalanceRight(leaf, Remove(Ctx(bpm, tree), key), key)

\* a Remove has just merged two leaves below a root that keeps two children:
\* four Inserts had built a root over three leaves (pages 1 to 4), the fifth
\* call is the Remove
C34_Witness ==
    /\ last.op = "remove" /\ last.exc = "none"
    /\ ~shadow.thrown
    /\ shadow.ops = 5
    /\ ~IsEmpty(tree)
    /\ ~IsLeafPage(PageNode(bpm, tree.root_page_id))
    /\ PageNode(bpm, tree.root_page_id).size = 2
    /\ bpm.next_page_id = 5
    /\ last.key \notin StoredKeys

\* the pages of the tree in context c
NodesIn(c) == IF IsEmpty(c.tree) THEN {} ELSE Below(c.bpm, c.tree.root_page_id, TreeHeight)

\* C35: the pages a Remove takes out of the tree (the emptied leaf root, the
\* internal root replaced by its only child, the right-hand node of a
\* coalesce) are deleted from the buffer pool: once Remove has returned they
\* are not resident.
C35_DiscardedDeleted ==
    (Running /\ ~shadow.thrown) =>
       \A key \in Keys :
          LET c == Remove(Ctx(bpm, tree), key)
          IN  Ok(c) => \A p \in TreeNodes \ NodesIn(c) : ~Resident(c.bpm, p)

\* the call that gave c ended by throwing an exception
Raised(c) == ~Ok(c) /\ c.exc # "segv"

\* C36: an Insert or Remove that ends by throwing (NewPage or the parent's
\* FetchPage failed, an internal page refused an index) has unpinned every
\* page it fetched or created: every pin count is what it was before the
\* call, 0 on every page of the tree and on every page the call created.
C36_PinsReleasedOnThrow ==
    (Running /\ ~shadow.thrown) =>
       \A key \in Keys :
          LET ins == Insert(Ctx(bpm, tree), key, MaxVal)
              rem == Remove(Ctx(bpm, tree), key)
              Released(c) ==
                  \A p \in IssuedPages(c.bpm) :
                     PinCount(c.bpm, p) =
                        IF p \in IssuedPages(bpm) THEN PinCount(bpm, p) ELSE 0
          IN  /\ Raised(ins) => Released(ins)
              /\ Raised(rem) => Released(rem)

------------------------------------------------------------------------------
(* The tree as the only caller of a pool just constructed: nobody has       *)
(* allocated the header page.  What a tree call reads from a page that     *)
(* HeaderPage::InsertRecord has written into depends on HeaderPage's byte   *)
(* layout, which these sources do not hold; the calls are followed up to    *)
(* that write.                                                              *)

FreshInit ==
    /\ bpm = BufferPoolManagerInstance(TreeFrames, ReplacerK)
    /\ tree = BPlusTree(LeafMax, InternalMax)
    /\ shadow = [map |-> <<>>, unsure |-> {}, calls |-> [k \in Keys |-> 0],
                 ops |-> 0, gets |-> 0, thrown |-> FALSE,
                 budget |-> MaxOps]
    /\ last = NoTreeCall
    /\ thr = [latch |-> 0]

\* no node lives in the page UpdateRootPageId writes the record into
HeaderApart == tree.root_page_id # HEADER_PAGE_ID

FreshInsert(key) == HeaderApart /\ TreeInsert(key)
FreshRemove(key) == HeaderApart /\ TreeRemove(key)
FreshGetValue(key) == HeaderApart /\ TreeGetValue(key)

FreshNext ==
    \/ \E key \in Keys : FreshInsert(key)
    \/ \E key \in Keys : FreshRemove(key)
    \/ \E key \in Keys : FreshGetValue(key)

SpecTreeFresh == FreshInit /\ [][FreshNext]_vars

\* C37: on a pool whose only caller is the tree, no node is stored in page
\* HEADER_PAGE_ID: the page id NewPage gives the root leaf of the first
\* Insert, and every page id it gives later, differs from 0, so the record
\* UpdateRootPageId writes never lands in a node's page.
C37_HeaderPageApart ==
    /\ HEADER_PAGE_ID \notin IssuedPages(bpm)
    /\ HeaderApart

-----------------------------------------------------------------------------
(* The LRU-K replacer called on its own: any sequence of RecordAccess,     *)
(* SetEvictable, Evict, Remove and Size, with frame ids inside and outside *)
(* 0..replacer_size_-1.  bpm.replacer is the replacer; last is the call    *)
(* just made and the replacer it was made on.                              *)

\* frames of the replacer called on its own
ReplacerFrames == 3

\* frame ids offered: -1 and ReplacerFrames are invalid
FrameIds == -1..ReplacerFrames

NoReplacerCall ==
    [op |-> "none", frame_id |-> -1, flag |-> FALSE, ret |-> FALSE, exc |-> FALSE,
     what |-> "", size |-> 0, before |-> LRUKReplacer(ReplacerFrames, ReplacerK)]

ReplacerInit ==
    /\ bpm = [replacer |-> LRUKReplacer(ReplacerFrames, ReplacerK)]
    /\ tree = [root_page_id |-> INVALID_PAGE_ID]
    /\ shadow = [bytes |-> <<>>, owed |-> {}]
    /\ last = NoReplacerCall
    /\ thr = [latch |-> 0]

\* the replacer call named op on frame_id gave c
ReplacerCalled(op, frame_id, flag, c) ==
    /\ bpm' = [replacer |-> c.rep]
    /\ last' = [op |-> op, frame_id |-> frame_id, flag |-> flag, ret |-> ~c.exc,
                exc |-> c.exc, what |-> c.what, size |-> ReplacerSize(c.rep),
                before |-> bpm.replacer]
    /\ UNCHANGED <<tree, shadow, thr>>

ReplacerRecordAccess ==
    /\ bpm.replacer.current_timestamp < MaxTime
    /\ \E frame_id \in FrameIds :
          ReplacerCalled("record_access", frame_id, FALSE,
                         RecordAccess(bpm.replacer, frame_id))

ReplacerSetEvictable ==
    \E frame_id \in FrameIds, set_evictable \in BOOLEAN :
       ReplacerCalled("set_evictable", frame_id, set_evictable,
                      SetEvictable(bpm.replacer, frame_id, set_evictable))

ReplacerEvict ==
    LET Evicted(e) ==
            /\ bpm' = [replacer |-> e.rep]
            /\ last' = [op |-> "evict", frame_id |-> e.frame_id, flag |-> FALSE,
                        ret |-> e.ok, exc |-> FALSE, what |-> "",
                        size |-> ReplacerSize(e.rep), before |-> bpm.replacer]
            /\ UNCHANGED <<tree, shadow, thr>>
    IN  Evicted(Evict(bpm.replacer))

ReplacerRemoveFrame ==
    \E frame_id \in FrameIds :
       ReplacerCalled("remove", frame_id, FALSE, ReplacerRemove(bpm.replacer, frame_id))

ReplacerNext ==
    \/ ReplacerRecordAccess
    \/ ReplacerSetEvictable
    \/ ReplacerEvict
    \/ ReplacerRemoveFrame

SpecReplacer == ReplacerInit /\ [][ReplacerNext]_vars

-----------------------------------------------------------------------------
(* Properties of the replacer.                                             *)

\* the tracked frames of r marked evictable
EvictableFrames(r) == {f \in DOMAIN r.frame_table : r.frame_table[f].ev}

\* those of them with fewer than k recorded accesses
UnderK(r) == {f \in EvictableFrames(r) : Len(r.frame_table[f].ts) < r.k}

\* the oldest timestamp r retains for f
OldestRetained(r, f) == Head(r.frame_table[f].ts)

KDistance(r, f) == r.current_timestamp - OldestRetained(r, f)

\* the frame of S whose oldest retained timestamp is smallest
Earliest(r, S) == CHOOSE f \in S : \A g \in S : OldestRetained(r, f) <= OldestRetained(r, g)

\* the frame the eviction rule names: an under-K frame when there is one
Victim(r) ==
    IF UnderK(r) # {} THEN Earliest(r, UnderK(r)) ELSE Earliest(r, EvictableFrames(r))

\* every order in which the frames of S can be enumerated
Orders(S) == {o \in [1..Cardinality(S) -> S] : Range(o) = S}

NoCandidate ==
    [candidate |-> -1, distance |-> 0, earliest |-> SIZE_MAX, found_inf |-> FALSE]

\* r after RecordAccess of each frame of accesses in turn
RECURSIVE Accessed(_, _)
Accessed(r, accesses) ==
    IF accesses = <<>> THEN r
    ELSE Accessed(RecordAccess(r, Head(accesses)).rep, Tail(accesses))

\* r after SetEvictable(f, TRUE) for each frame of fids in turn
RECURSIVE AllEvictable(_, _)
AllEvictable(r, fids) ==
    IF fids = <<>> THEN r
    ELSE AllEvictable(SetEvictable(r, Head(fids), TRUE).rep, Tail(fids))

\* K = 2, frames A, B, C, D = 0, 1, 2, 3 accessed A,B,C,D,A,B,C, all evictable
ExampleReplacer ==
    AllEvictable(Accessed(LRUKReplacer(4, 2), <<0, 1, 2, 3, 0, 1, 2>>), <<0, 1, 2, 3>>)

\* C16: Evict returns, among the evictable frames, the under-K frame with the
\* earliest first recorded timestamp if there is an under-K frame, and
\* otherwise the frame with the largest k-distance, which is the one with the
\* smallest oldest retained timestamp; this holds whatever the order frame_table_
\* is iterated in, and the evicted frame is no longer tracked.  With K = 2 and
\* accesses A,B,C,D,A,B,C, all evictable, Evict returns D and then A.
C16_EvictChoice ==
    /\ LET r == bpm.replacer
           e == Evict(r)
       IN  /\ \A f, g \in DOMAIN r.frame_table :
                 /\ r.frame_table[f].ts # <<>>
                 /\ f # g => OldestRetained(r, f) # OldestRetained(r, g)
           /\ EvictableFrames(r) # {} =>
                 /\ e.ok
                 /\ e.frame_id = Victim(r)
                 /\ UnderK(r) # {} =>
                       /\ e.frame_id \in UnderK(r)
                       /\ \A g \in UnderK(r) :
                             OldestRetained(r, e.frame_id) <= OldestRetained(r, g)
                 /\ UnderK(r) = {} =>
                       \A g \in EvictableFrames(r) :
                          /\ KDistance(r, e.frame_id) >= KDistance(r, g)
                          /\ OldestRetained(r, e.frame_id) <= OldestRetained(r, g)
                 /\ DOMAIN e.rep.frame_table = DOMAIN r.frame_table \ {e.frame_id}
                 /\ \A o \in Orders(DOMAIN r.frame_table) :
                       EvictScan(r, NoCandidate, o).candidate = Victim(r)
    /\ (last.op = "evict" /\ last.ret) =>
          /\ last.frame_id = Victim(last.before)
          /\ last.frame_id \notin DOMAIN bpm.replacer.frame_table
    /\ LET first == Evict(ExampleReplacer)
           second == Evict(first.rep)
       IN  /\ first.ok /\ first.frame_id = 3
           /\ second.ok /\ second.frame_id = 0

\* an eviction at clock MaxTime that chose among at-least-K frames only, the
\* frame evicted not being the evictable frame with the lowest id
C16_Witness ==
    /\ last.op = "evict" /\ last.ret
    /\ UnderK(last.before) = {}
    /\ Cardinality(EvictableFrames(last.before)) >= 2
    /\ \E g \in EvictableFrames(last.before) : g < last.frame_id
    /\ Cardinality(DOMAIN last.before.frame_table) < ReplacerFrames
    /\ last.before.current_timestamp = MaxTime

\* C17: Size() is the number of tracked frames whose is_evictable is true;
\* SetEvictable on an untracked frame, or with the value the flag already has,
\* changes nothing, and otherwise sets the flag and moves Size() by one; Evict
\* returns false exactly when Size() is 0.
C17_SizeCountsEvictable ==
    /\ LET r == bpm.replacer
       IN  /\ ReplacerSize(r) = Cardinality(EvictableFrames(r))
           /\ Evict(r).ok <=> ReplacerSize(r) # 0
           /\ \A f \in 0..(r.replacer_size - 1), b \in BOOLEAN :
                 LET s == SetEvictable(r, f, b)
                 IN  /\ ~s.exc
                     /\ IF f \notin DOMAIN r.frame_table THEN s.rep = r
                        ELSE IF r.frame_table[f].ev = b THEN s.rep = r
                        ELSE /\ ReplacerSize(s.rep)
                                   = ReplacerSize(r) + (IF b THEN 1 ELSE -1)
                             /\ s.rep.frame_table
                                   = [r.frame_table EXCEPT ![f].ev = b]
                             /\ s.rep.current_timestamp = r.current_timestamp
    /\ last.size = ReplacerSize(bpm.replacer)
    /\ last.op = "set_evictable" =>
          LET changed == /\ last.frame_id \in DOMAIN last.before.frame_table
                         /\ last.before.frame_table[last.frame_id].ev # last.flag
          IN  /\ ~changed => bpm.replacer = last.before
              /\ changed => last.size = ReplacerSize(last.before)
                                           + (IF last.flag THEN 1 ELSE -1)
    /\ last.op = "evict" => (~last.ret <=> ReplacerSize(last.before) = 0)

\* SetEvictable(f, true) was called on a tracked frame already evictable while
\* another frame was evictable too, and an untracked frame exists
C17_Witness ==
    /\ last.op = "set_evictable" /\ last.flag /\ ~last.exc
    /\ last.frame_id \in DOMAIN last.before.frame_table
    /\ last.before.frame_table[last.frame_id].ev
    /\ last.size = 2
    /\ DOMAIN bpm.replacer.frame_table # 0..(ReplacerFrames - 1)

\* C18: Remove of a tracked frame that is not evictable throws "Cannot remove
\* non-evictable frame" and leaves the replacer (the frame's history, its flag
\* and Size()) as it was; Remove of an untracked frame does nothing; Remove of
\* a tracked evictable frame erases the frame with its history, so that a later
\* RecordAccess starts a new one, and lowers Size() by 1.
C18_RemoveContract ==
    /\ LET r == bpm.replacer
       IN  \A f \in 0..(r.replacer_size - 1) :
              LET m == ReplacerRemove(r, f)
              IN  IF f \notin DOMAIN r.frame_table
                  THEN ~m.exc /\ m.rep = r
                  ELSE IF ~r.frame_table[f].ev
                  THEN /\ m.exc
                       /\ m.what = "Cannot remove non-evictable frame"
                       /\ m.rep = r
                  ELSE /\ ~m.exc
                       /\ m.rep.frame_table
                             = [g \in DOMAIN r.frame_table \ {f} |-> r.frame_table[g]]
                       /\ ReplacerSize(m.rep) = ReplacerSize(r) - 1
                       /\ m.rep.current_timestamp = r.current_timestamp
                       /\ RecordAccess(m.rep, f).rep.frame_table[f]
                             = [ts |-> <<r.current_timestamp + 1>>, ev |-> FALSE]
    /\ (last.op = "remove" /\ ~InvalidFrame(last.before, last.frame_id)) =>
          IF last.frame_id \notin DOMAIN last.before.frame_table
          THEN ~last.exc /\ bpm.replacer = last.before
          ELSE IF ~last.before.frame_table[last.frame_id].ev
          THEN /\ last.exc
               /\ last.what = "Cannot remove non-evictable frame"
               /\ bpm.replacer = last.before
          ELSE /\ ~last.exc
               /\ last.frame_id \notin DOMAIN bpm.replacer.frame_table
               /\ last.size = ReplacerSize(last.before) - 1

\* Remove was called on a tracked frame with K accesses that is not evictable,
\* while another frame was evictable
C18_Witness ==
    /\ last.op = "remove" /\ last.exc
    /\ last.what = "Cannot remove non-evictable frame"
    /\ last.frame_id \in DOMAIN bpm.replacer.frame_table
    /\ Len(bpm.replacer.frame_table[last.frame_id].ts) = ReplacerK
    /\ ~bpm.replacer.frame_table[last.frame_id].ev
    /\ last.size >= 1

\* frame ids outside 0..replacer_size_-1
InvalidIds(r) == {-2, -1, r.replacer_size, r.replacer_size + 1}

\* C19: RecordAccess, SetEvictable and Remove called with a frame id that is
\* negative or at least replacer_size_ throw "Invalid frame id" and leave the
\* replacer as it was: current_timestamp_, Size() and every frame's history
\* and flag.
C19_InvalidFrameRejected ==
    /\ LET r == bpm.replacer
       IN  \A f \in InvalidIds(r) :
              /\ InvalidFrame(r, f)
              /\ \A c \in {RecordAccess(r, f), SetEvictable(r, f, TRUE),
                           SetEvictable(r, f, FALSE), ReplacerRemove(r, f)} :
                    /\ c.exc
                    /\ c.what = "Invalid frame id"
                    /\ c.rep.current_timestamp = r.current_timestamp
                    /\ c.rep.frame_table = r.frame_table
                    /\ ReplacerSize(c.rep) = ReplacerSize(r)
                    /\ c.rep = r
    /\ \A f \in 0..(bpm.replacer.replacer_size - 1) : ~InvalidFrame(bpm.replacer, f)
    /\ (/\ last.op \in {"record_access", "set_evictable", "remove"}
        /\ (last.frame_id < 0 \/ last.frame_id >= ReplacerFrames)) =>
          /\ last.exc
          /\ last.what = "Invalid frame id"
          /\ bpm.replacer = last.before
    /\ last.op = "record_access" =>
          bpm.replacer.current_timestamp
             = last.before.current_timestamp + (IF last.exc THEN 0 ELSE 1)

\* RecordAccess was called with frame id replacer_size_ on a replacer whose
\* clock has advanced and which tracks an evictable and a non-evictable frame
C19_Witness ==
    /\ last.op = "record_access" /\ last.exc
    /\ last.frame_id = ReplacerFrames
    /\ bpm.replacer.current_timestamp >= 2
    /\ \E f, g \in DOMAIN bpm.replacer.frame_table :
          bpm.replacer.frame_table[f].ev /\ ~bpm.replacer.frame_table[g].ev

\* C39: every tracked frame keeps between 1 and k_ timestamps, strictly
\* increasing and none later than current_timestamp_, which a RecordAccess that
\* records advances by exactly one and no other call moves (a RecordAccess
\* refused for its frame id records nothing); a frame RecordAccess meets
\* untracked starts non-evictable with that one timestamp; the frame Evict
\* returned and the frame Remove took out are untracked, so that the next
\* RecordAccess of such a frame starts it again as a non-evictable frame with a
\* single timestamp.
C39_FrameHistory ==
    LET r == bpm.replacer
        b == last.before
        f == last.frame_id
    IN  /\ \A g \in DOMAIN r.frame_table :
              LET ts == r.frame_table[g].ts
              IN  /\ Len(ts) \in 1..r.k
                  /\ \A i \in 1..(Len(ts) - 1) : ts[i] < ts[i + 1]
                  /\ ts[Len(ts)] <= r.current_timestamp
        /\ (last.op = "record_access" /\ ~last.exc) =>
              /\ r.current_timestamp = b.current_timestamp + 1
              /\ f \in DOMAIN r.frame_table
              /\ r.frame_table[f].ts[Len(r.frame_table[f].ts)] = r.current_timestamp
              /\ f \notin DOMAIN b.frame_table =>
                    r.frame_table[f] = [ts |-> <<r.current_timestamp>>, ev |-> FALSE]
              /\ f \in DOMAIN b.frame_table =>
                    r.frame_table[f].ev = b.frame_table[f].ev
        /\ ~(last.op = "record_access" /\ ~last.exc) =>
              r.current_timestamp = b.current_timestamp
        /\ (last.op = "evict" /\ last.ret) =>
              f \in DOMAIN b.frame_table /\ f \notin DOMAIN r.frame_table
        /\ (last.op = "remove" /\ ~last.exc) => f \notin DOMAIN r.frame_table
        /\ \A g \in FrameIds :
              (~InvalidFrame(r, g) /\ g \notin DOMAIN r.frame_table) =>
                 RecordAccess(r, g).rep.frame_table[g]
                    = [ts |-> <<r.current_timestamp + 1>>, ev |-> FALSE]

\* RecordAccess has just started a frame again: the two other frames were
\* accessed at times 1 and 2 only, so the accesses at times 3 and 4 were this
\* frame's, which was tracked and then evicted or removed before time 5
C39_Witness ==
    /\ last.op = "record_access" /\ ~last.exc
    /\ last.frame_id \notin DOMAIN last.before.frame_table
    /\ DOMAIN bpm.replacer.frame_table = 0..(ReplacerFrames - 1)
    /\ bpm.replacer.frame_table[last.frame_id] = [ts |-> <<5>>, ev |-> FALSE]
    /\ {bpm.replacer.frame_table[g].ts :
           g \in DOMAIN bpm.replacer.frame_table \ {last.frame_id}} = {<<1>>, <<2>>}

-----------------------------------------------------------------------------
(* The extendible hash table called on its own: any sequence of Insert,    *)
(* Remove and Find.  bpm.page_table is the table, shadow.live maps each    *)
(* key whose last call was an Insert to the value of that Insert, and last *)
(* is the call just made.                                                  *)

\* keys offered to the hash table are 0..MaxHashKey
MaxHashKey == 5
\* values offered to the hash table are 1..MaxHashVal
MaxHashVal == 2
\* capacity of a bucket of the hash table called on its own
HashBucketSize == 2

HashKeys == 0..MaxHashKey
HashVals == 1..MaxHashVal

\* found and old are what Find gave for the key before the call, depth the
\* global depth before it
NoHashCall == [op |-> "none", key |-> 0, value |-> nullptr, found |-> FALSE, old |-> nullptr,
               depth |-> 0]

HashInit ==
    /\ bpm = [page_table |-> ExtendibleHashTable(HashBucketSize)]
    /\ tree = [root_page_id |-> INVALID_PAGE_ID]
    /\ shadow = [live |-> <<>>]
    /\ last = NoHashCall
    /\ thr = [latch |-> 0]

HashInsert ==
    \E key \in HashKeys, value \in HashVals :
       /\ bpm' = [page_table |-> HTInsert(bpm.page_table, key, value)]
       /\ shadow' = [live |-> [k \in DOMAIN shadow.live \cup {key} |->
                                  IF k = key THEN value ELSE shadow.live[k]]]
       /\ last' = [op |-> "insert", key |-> key, value |-> value,
                   found |-> HTFind(bpm.page_table, key).found,
                   old |-> HTFind(bpm.page_table, key).value,
                   depth |-> bpm.page_table.global_depth]
       /\ UNCHANGED <<tree, thr>>

HashRemove ==
    \E key \in HashKeys :
       /\ bpm' = [page_table |-> HTRemove(bpm.page_table, key)]
       /\ shadow' = [live |-> [k \in DOMAIN shadow.live \ {key} |-> shadow.live[k]]]
       /\ last' = [op |-> "remove", key |-> key, value |-> nullptr,
                   found |-> HTFind(bpm.page_table, key).found,
                   old |-> HTFind(bpm.page_table, key).value,
                   depth |-> bpm.page_table.global_depth]
       /\ UNCHANGED <<tree, thr>>

HashFind ==
    \E key \in HashKeys :
       LET Found(hit) ==
               /\ last' = [op |-> "find", key |-> key, value |-> hit.value,
                           found |-> hit.found, old |-> hit.value,
                           depth |-> bpm.page_table.global_depth]
               /\ UNCHANGED <<bpm, tree, shadow, thr>>
       IN  Found(HTFind(bpm.page_table, key))

HashNext ==
    \/ HashInsert
    \/ HashRemove
    \/ HashFind

SpecHash == HashInit /\ [][HashNext]_vars

-----------------------------------------------------------------------------
(* Properties of the hash table.                                           *)

\* the bucket the directory holds at the slot of key's low global_depth_ bits
HomeBucket(h, key) == h.buckets[At(h.directory, Hash(key) % Pow2(h.global_depth))]

\* the keys held by bucket b, one entry per item
HeldKeys(b) == [i \in DOMAIN b.items |-> b.items[i].first]

\* C20: after any sequence of Insert and Remove, Find of a key whose last call
\* was Insert(k, v) gives v, the value of its most recent Insert, read from the
\* bucket at directory index hash(k) & ((1 << global_depth_) - 1); no other
\* bucket holds the key; Find of a key whose last call was Remove, or never
\* inserted, reports absent.  Insert of a key already present overwrites its
\* value in place: directory, depths and every item's position stay.
C20_FindLatest ==
    /\ LET h == bpm.page_table
       IN  /\ Len(h.directory) = Pow2(h.global_depth)
           /\ \A k \in HashKeys :
                 LET hit == HTFind(h, k)
                 IN  /\ hit = BucketFind(HomeBucket(h, k), k)
                     /\ IF k \in DOMAIN shadow.live
                        THEN /\ hit.found
                             /\ hit.value = shadow.live[k]
                             /\ Cardinality({i \in DOMAIN HomeBucket(h, k).items :
                                               HomeBucket(h, k).items[i].first = k}) = 1
                        ELSE ~hit.found
                     /\ \A id \in DOMAIN h.buckets :
                           k \in Range(HeldKeys(h.buckets[id])) =>
                              /\ k \in DOMAIN shadow.live
                              /\ id = At(h.directory, IndexOf(h, k))
           /\ \A k \in DOMAIN shadow.live, v \in HashVals :
                 LET h2 == HTInsert(h, k, v)
                 IN  /\ HTFind(h2, k) = [found |-> TRUE, value |-> v]
                     /\ h2.directory = h.directory
                     /\ h2.global_depth = h.global_depth
                     /\ DOMAIN h2.buckets = DOMAIN h.buckets
                     /\ \A id \in DOMAIN h.buckets :
                           /\ HeldKeys(h2.buckets[id]) = HeldKeys(h.buckets[id])
                           /\ h2.buckets[id].depth = h.buckets[id].depth
                     /\ \A j \in HashKeys \ {k} : HTFind(h2, j) = HTFind(h, j)
           /\ \A k \in HashKeys :
                 LET h2 == HTRemove(h, k)
                 IN  /\ ~HTFind(h2, k).found
                     /\ \A j \in HashKeys \ {k} : HTFind(h2, j) = HTFind(h, j)
    /\ last.op = "find" =>
          IF last.key \in DOMAIN shadow.live
          THEN last.found /\ last.value = shadow.live[last.key]
          ELSE ~last.found /\ last.value = nullptr
    /\ last.op = "insert" =>
          HTFind(bpm.page_table, last.key) = [found |-> TRUE, value |-> last.value]
    /\ last.op = "remove" => ~HTFind(bpm.page_table, last.key).found

\* Insert gave a present key another value, in a table whose directory has
\* doubled twice, the key being the first item of a full bucket, while some
\* other key is absent
C20_Witness ==
    /\ last.op = "insert" /\ last.found
    /\ last.old # last.value
    /\ shadow.live[last.key] = last.value
    /\ bpm.page_table.global_depth >= 2
    /\ Len(HomeBucket(bpm.page_table, last.key).items) = HashBucketSize
    /\ At(HeldKeys(HomeBucket(bpm.page_table, last.key)), 0) = last.key
    /\ \E k \in HashKeys : k \notin DOMAIN shadow.live

\* the directory indices of h
Slots(h) == 0..(Len(h.directory) - 1)

\* C21: after every Insert, Remove and Find the directory has exactly
\* 2^global_depth_ slots; for every directory index i whose bucket has local
\* depth d, d <= global_depth_, every index with the same low d bits as i holds
\* the same bucket, every key in the bucket has the low d bits of its hash equal
\* to those of i, and the bucket holds at most bucket_size_ items.
C21_DirectoryShape ==
    LET h == bpm.page_table
    IN  /\ Len(h.directory) = Pow2(h.global_depth)
        /\ Range(h.directory) = DOMAIN h.buckets
        /\ \A i \in Slots(h) :
              LET id == At(h.directory, i)
                  d == h.buckets[id].depth
              IN  /\ d <= h.global_depth
                  /\ \A j \in Slots(h) :
                        (j % Pow2(d) = i % Pow2(d)) => At(h.directory, j) = id
                  /\ \A n \in DOMAIN h.buckets[id].items :
                        Hash(h.buckets[id].items[n].first) % Pow2(d) = i % Pow2(d)
                  /\ Len(h.buckets[id].items) <= h.bucket_size

\* an Insert left a directory of four slots in which a bucket of local depth 1
\* that holds a key is shared by two slots, next to a full bucket of depth 2
C21_Witness ==
    /\ last.op = "insert"
    /\ bpm.page_table.global_depth = 2
    /\ \E i, j \in Slots(bpm.page_table) :
          /\ i # j
          /\ At(bpm.page_table.directory, i) = At(bpm.page_table.directory, j)
          /\ bpm.page_table.buckets[At(bpm.page_table.directory, i)].depth = 1
          /\ bpm.page_table.buckets[At(bpm.page_table.directory, i)].items # <<>>
    /\ \E i \in Slots(bpm.page_table) :
          /\ bpm.page_table.buckets[At(bpm.page_table.directory, i)].depth = 2
          /\ Len(bpm.page_table.buckets[At(bpm.page_table.directory, i)].items)
                = HashBucketSize

\* h after Insert(k, 1) for each key k of keys in turn
RECURSIVE InsertedKeys(_, _)
InsertedKeys(h, keys) ==
    IF keys = <<>> THEN h
    ELSE InsertedKeys(HTInsert(h, Head(keys), 1), Tail(keys))

\* an empty table with buckets of 2 after the first n of the keys 0,1,2,3,4
ExampleTable(n) == InsertedKeys(ExtendibleHashTable(2), SubSeq(<<0, 1, 2, 3, 4>>, 1, n))

\* C22: with buckets of 2, inserting 0,1,2,3,4 in this order into an empty table
\* gives global depth 1 and GetNumBuckets() = 2 after key 2 and after key 3,
\* and global depth 2 and GetNumBuckets() = 3 after key 4; GetNumBuckets() is
\* always the number of distinct buckets the directory refers to.
C22_SplitExample ==
    /\ ExampleTable(2).global_depth = 0 /\ GetNumBuckets(ExampleTable(2)) = 1
    /\ ExampleTable(3).global_depth = 1 /\ GetNumBuckets(ExampleTable(3)) = 2
    /\ ExampleTable(4).global_depth = 1 /\ GetNumBuckets(ExampleTable(4)) = 2
    /\ ExampleTable(5).global_depth = 2 /\ GetNumBuckets(ExampleTable(5)) = 3
    /\ GetNumBuckets(bpm.page_table) = Cardinality(Range(bpm.page_table.directory))
    /\ \A k \in HashKeys, v \in HashVals :
          /\ GetNumBuckets(HTInsert(bpm.page_table, k, v))
                = Cardinality(Range(HTInsert(bpm.page_table, k, v).directory))
          /\ GetNumBuckets(HTRemove(bpm.page_table, k)) = GetNumBuckets(bpm.page_table)

\* the table is the one 0,1,2,3,4 inserted in order give, key 4 inserted last
C22_Witness ==
    /\ last.op = "insert" /\ last.key = 4 /\ ~last.found
    /\ bpm.page_table = ExampleTable(5)
    /\ DOMAIN shadow.live = 0..4
    /\ bpm.page_table.global_depth = 2
    /\ GetNumBuckets(bpm.page_table) = 3

\* C38: Insert(k, v) returns: with pairwise distinct hash values the loop
\* splits the bucket of k finitely often (each round raises its local depth by
\* one, a round whose items all fall on one side being followed by another),
\* the directory doubling no further than the bits that tell the hash values
\* apart; afterwards Find(k) gives v and Find of every other key gives what it
\* gave before.
C38_InsertReturns ==
    \A k \in HashKeys, v \in HashVals :
       LET h == bpm.page_table
           after == HTInsert(h, k, v)
       IN  /\ HTFind(after, k) = [found |-> TRUE, value |-> v]
           /\ \A j \in HashKeys \ {k} : HTFind(after, j) = HTFind(h, j)
           /\ HomeBucket(after, k).depth >= HomeBucket(h, k).depth
           /\ Pow2(after.global_depth) < 2 * (MaxHashKey + 1)
           /\ after.global_depth > h.global_depth =>
                 HomeBucket(after, k).depth = after.global_depth

\* an Insert of an absent key has just split twice, doubling the directory both
\* times: the first split left the two items of the full bucket on one side
C38_Witness ==
    /\ last.op = "insert" /\ ~last.found
    /\ bpm.page_table.global_depth = last.depth + 2
    /\ Len(HomeBucket(bpm.page_table, last.key).items) < HashBucketSize
    /\ Cardinality(DOMAIN shadow.live) = HashBucketSize + 1
    /\ \A k \in DOMAIN shadow.live :
          HTFind(bpm.page_table, k) = [found |-> TRUE, value |-> shadow.live[k]]

====
